---- MODULE Spec2Model ----
(***************************************************************************)
(* Usage analytics and cost-intelligence engine of the Fortress optimizer: *)
(* CostPredictionEngine (backend/cost_predictor.py) and                    *)
(* ProviderIntelligence (backend/provider_intelligence.py).                *)
(*                                                                         *)
(* Conventions of the model                                                *)
(*   - money is an exact integer number of cents; the code's float         *)
(*     arithmetic is modelled by exact rational arithmetic, so binary      *)
(*     rounding noise of IEEE doubles is not part of the model;            *)
(*   - a Python dict is a function whose DOMAIN is the set of its keys;    *)
(*   - a calendar date (the ISO string of the code) is a record            *)
(*     [y, m, d]; ISO strings compare like these triples;                  *)
(*   - the wall clock is the number of days elapsed since StartDate;       *)
(*   - an operation that raises returns [ok |-> FALSE, error |-> ...].     *)
(***************************************************************************)
EXTENDS Integers, Sequences, FiniteSets, TLC

VARIABLES
    user_usage,            \* CostPredictionEngine.user_usage   {user_id: [daily records]}
    learning_enabled,      \* CostPredictionEngine.learning_enabled
    user_history,          \* ProviderIntelligence.user_history {user_id: [records]}
    provider_calibration,  \* ProviderIntelligence.provider_calibration {provider: calib}
    pi_learning_enabled,   \* ProviderIntelligence.learning_enabled
    now,                   \* the wall clock: days elapsed since StartDate
    result,                \* the last call and what it returned
    first,                 \* a remembered earlier read call (NoCall when there is none)
    calls                  \* the record_usage calls that the host's threads are in

vars == <<user_usage, learning_enabled, user_history, provider_calibration,
          pi_learning_enabled, now, result, first, calls>>

(***************************************************************************)
(* Bounds of the model                                                     *)
(***************************************************************************)
MaxEvents == 3
MaxSeries == 9
MaxLearn == 2
\* the longest ledger the anomaly detector is given
MaxWindow == 6
\* the number of learn_from_optimization calls of the learning runs
MaxCalls == 3
\* the number of threads of the host that call record_usage
MaxThreads == 2

(***************************************************************************)
(* Arithmetic helpers                                                      *)
(***************************************************************************)
None == [ok |-> TRUE, kind |-> "None"]

EmptyDict == [k \in {} |-> 0]

Min(a, b) == IF a <= b THEN a ELSE b

Max(a, b) == IF a >= b THEN a ELSE b

Abs(a) == IF a < 0 THEN -a ELSE a

\* round(n/d) to an integer, ties to even, as Python's round() (d > 0)
RoundDiv(n, d) ==
    LET a == Abs(n)
        q == a \div d
        r == a % d
        v == IF 2 * r < d THEN q
             ELSE IF 2 * r > d THEN q + 1
             ELSE IF q % 2 = 0 THEN q ELSE q + 1
    IN  IF n < 0 THEN -v ELSE v

\* int(n/d): truncation toward zero (d > 0)
TruncDiv(n, d) == IF n < 0 THEN -((-n) \div d) ELSE n \div d

(***************************************************************************)
(* Python floats. Costs are floats: IEEE-754 binary64, a significand of 53 *)
(* bits, every operation rounded to the nearest value, ties to even. The   *)
(* model rounds the same way with a significand of MantissaBits bits; 13   *)
(* is 53 less a multiple of 4, so that the decimal fractions with a binary *)
(* expansion of period 4 (0.3, 0.7, 0.1 ...) round in the same direction.  *)
(* Amounts are non-negative integers (cents); an amount below              *)
(* 2^MantissaBits is exact.                                                *)
(***************************************************************************)
MantissaBits == 13

RECURSIVE Pow2(_)
Pow2(k) == IF k = 0 THEN 1 ELSE 2 * Pow2(k - 1)

\* 2^MantissaBits
Radix == Pow2(MantissaBits)

\* num/den * 2^e kept, with 2^(MantissaBits-1) <= num/den < 2^MantissaBits
RECURSIVE Normalize(_, _, _)
Normalize(num, den, e) ==
    IF num >= den * Radix THEN Normalize(num, 2 * den, e + 1)
    ELSE IF 2 * num < den * Radix THEN Normalize(2 * num, den, e - 1)
    ELSE [num |-> num, den |-> den, e |-> e]

\* the float nearest to num/den (num >= 0, den > 0), ties to even: m * 2^e with
\* 2^(MantissaBits-1) <= m < 2^MantissaBits, or m = 0
Float(num, den) ==
    IF num = 0 THEN [m |-> 0, e |-> 0]
    ELSE LET n == Normalize(num, den, 0)
             m == RoundDiv(n.num, n.den)
         IN  IF m = Radix
             THEN [m |-> Radix \div 2, e |-> n.e + 1]
             ELSE [m |-> m, e |-> n.e]

\* f * k for a float f and a small integer k (or k/2^h), rounded
FloatTimes(f, k, h) ==
    LET g == Float(f.m * k, 1)
    IN  IF g.m = 0 THEN g ELSE [m |-> g.m, e |-> g.e + f.e - h]

\* f > g
FloatAbove(f, g) ==
    IF f.m = 0 THEN FALSE
    ELSE IF g.m = 0 THEN TRUE
    ELSE f.e > g.e \/ (f.e = g.e /\ f.m > g.m)

\* a + b rounded, for amounts a and b
FloatAdd(a, b) ==
    LET f == Float(Abs(a + b), 1)
        v == IF Abs(a + b) < Radix THEN Abs(a + b) ELSE f.m * Pow2(f.e)
    IN  IF a + b < 0 THEN -v ELSE v

\* total = 0; for x in s: total += x
RECURSIVE FloatSum(_)
FloatSum(s) ==
    IF s = <<>> THEN 0 ELSE FloatAdd(FloatSum(SubSeq(s, 1, Len(s) - 1)), s[Len(s)])

RECURSIVE SumSeq(_)
SumSeq(s) == IF s = <<>> THEN 0 ELSE s[1] + SumSeq(Tail(s))

RECURSIVE SumSquares(_)
SumSquares(s) == IF s = <<>> THEN 0 ELSE s[1] * s[1] + SumSquares(Tail(s))

RECURSIVE SumOver(_, _)
SumOver(f, keys) ==
    IF keys = {} THEN 0
    ELSE LET k == CHOOSE x \in keys : TRUE
         IN  f[k] + SumOver(f, keys \ {k})

\* s[-n:]
LastN(s, n) == IF Len(s) <= n THEN s ELSE SubSeq(s, Len(s) - n + 1, Len(s))

\* s[:-n]
DropLastN(s, n) == IF Len(s) <= n THEN <<>> ELSE SubSeq(s, 1, Len(s) - n)

(***************************************************************************)
(* The calendar: datetime.now().date(), .month, .day and .isoformat()      *)
(***************************************************************************)
StartDate == [y |-> 2028, m |-> 2, d |-> 27]

IsLeap(y) == (y % 4 = 0 /\ y % 100 # 0) \/ y % 400 = 0

\* the real length of a month, which decides the dates the clock can show
CalendarDays(y, m) ==
    IF m = 2 THEN (IF IsLeap(y) THEN 29 ELSE 28)
    ELSE IF m \in {4, 6, 9, 11} THEN 30 ELSE 31

NextDay(dt) ==
    IF dt.d < CalendarDays(dt.y, dt.m) THEN [dt EXCEPT !.d = dt.d + 1]
    ELSE IF dt.m < 12 THEN [dt EXCEPT !.m = dt.m + 1, !.d = 1]
    ELSE [y |-> dt.y + 1, m |-> 1, d |-> 1]

RECURSIVE DateOf(_)
DateOf(n) == IF n = 0 THEN StartDate ELSE NextDay(DateOf(n - 1))

\* a <= b on ISO date strings
DateLeq(a, b) ==
    \/ a.y < b.y
    \/ a.y = b.y /\ a.m < b.m
    \/ a.y = b.y /\ a.m = b.m /\ a.d <= b.d

(***************************************************************************)
(* CostPredictionEngine.record_usage                                       *)
(***************************************************************************)
HasLedger(usage, u) == u \in DOMAIN usage /\ usage[u] # <<>>

\* as FindToday, but looking at the last record of the ledger only
FindTodayLastOnly(ledger, today) ==
    IF ledger # <<>> /\ ledger[Len(ledger)].date = today THEN Len(ledger) ELSE 0

\* the position of the first record dated today in the ledger, 0 when there is none
FindToday(ledger, today) ==
    IF \E i \in 1..Len(ledger) : ledger[i].date = today
    THEN CHOOSE i \in 1..Len(ledger) :
            /\ ledger[i].date = today
            /\ \A j \in 1..(i - 1) : ledger[j].date # today
    ELSE 0

NewRecord(today) ==
    [date |-> today, total_cost |-> 0, total_tokens |-> 0, requests |-> <<>>,
     by_provider |-> EmptyDict, by_level |-> EmptyDict]

\* as AddTo, but an entry that exists is overwritten instead of added to
AddToOverwrite(d, k, c, t) ==
    (k :> [cost |-> c, tokens |-> t]) @@ d

\* d[k]['cost'] += c; d[k]['tokens'] += t, the entry created at 0/0 when absent
AddTo(d, k, c, t) ==
    LET d0 == IF k \in DOMAIN d THEN d ELSE d @@ (k :> [cost |-> 0, tokens |-> 0])
    IN  [d0 EXCEPT ![k] = [cost |-> FloatAdd(@.cost, c), tokens |-> @.tokens + t]]

UpdateRecord(rec, p, t, c, l, stamp) ==
    [rec EXCEPT
        !.total_cost = FloatAdd(@, c),
        !.total_tokens = @ + t,
        !.requests = Append(@, [timestamp |-> stamp, provider |-> p, tokens |-> t,
                                cost |-> c, level |-> l]),
        !.by_provider = AddTo(@, p, c, t),
        !.by_level = AddTo(@, l, c, t)]

\* as RecordInLedger, but with the record of a new day put at the head of the ledger
RecordInLedgerAtHead(ledger, p, t, c, l, today) ==
    LET i == FindToday(ledger, today)
        withToday == IF i = 0 THEN <<NewRecord(today)>> \o ledger ELSE ledger
        j == IF i = 0 THEN 1 ELSE i
    IN  [withToday EXCEPT ![j] = UpdateRecord(@, p, t, c, l, today)]

\* the ledger of user u after one event; today is datetime.now().date().isoformat()
RecordInLedger(ledger, p, t, c, l, today) ==
    LET i == FindToday(ledger, today)
        withToday == IF i = 0 THEN Append(ledger, NewRecord(today)) ELSE ledger
        j == IF i = 0 THEN Len(withToday) ELSE i
    IN  [withToday EXCEPT ![j] = UpdateRecord(@, p, t, c, l, today)]

RecordUsage(usage, u, p, t, c, l, today) ==
    LET usage0 == IF u \in DOMAIN usage THEN usage ELSE usage @@ (u :> <<>>)
    IN  [usage0 EXCEPT ![u] = RecordInLedger(@, p, t, c, l, today)]

\* as record_usage, but without the learning_enabled check
record_usage_unchecked(u, p, t, c, l) ==
    /\ user_usage' = RecordUsage(user_usage, u, p, t, c, l, DateOf(now))
    /\ result' = [op |-> "record_usage", user |-> u,
                  arg |-> [provider |-> p, tokens |-> t, cost |-> c, level |-> l],
                  at |-> now, out |-> None]
    /\ UNCHANGED <<learning_enabled, user_history, provider_calibration,
                   pi_learning_enabled, now, calls>>

record_usage(u, p, t, c, l) ==
    /\ user_usage' = IF learning_enabled
                     THEN RecordUsage(user_usage, u, p, t, c, l, DateOf(now))
                     ELSE user_usage
    /\ result' = [op |-> "record_usage", user |-> u,
                  arg |-> [provider |-> p, tokens |-> t, cost |-> c, level |-> l],
                  at |-> now, out |-> None]
    /\ UNCHANGED <<learning_enabled, user_history, provider_calibration,
                   pi_learning_enabled, now, calls>>

(***************************************************************************)
(* CostPredictionEngine.predict_monthly_cost                               *)
(***************************************************************************)
DailyCosts(ledger) == [i \in 1..Len(ledger) |-> ledger[i].total_cost]

ZeroPrediction ==
    [ok |-> TRUE, daily_average |-> 0, current_period_cost |-> 0,
     projected_period_end |-> 0, days_remaining |-> 0, confidence |-> 0,
     trend |-> "stable"]

\* as Confidence, but counting from the second data point
ConfidenceOffByOne(data_points) == Min(95, 50 + (data_points - 1) * 5)

\* min(0.95, 0.5 + data_points * 0.05), in hundredths
Confidence(data_points) == Min(95, 50 + data_points * 5)

\* the month length the forecaster assumes
DaysInMonth(m) == IF m = 2 THEN 28 ELSE IF m \in {4, 6, 9, 11} THEN 30 ELSE 31

DaysRemaining(today) == DaysInMonth(today.m) - today.d

\* sum of total_cost over the records dated today or earlier
CurrentPeriodCost(ledger, today) ==
    SumSeq([i \in 1..Len(ledger) |->
              IF DateLeq(ledger[i].date, today) THEN ledger[i].total_cost ELSE 0])

\* as Trend, but with the last 3 records compared with the mean of all records
TrendAgainstAll(daily_costs) ==
    IF Len(daily_costs) >= 3
    THEN LET recent == LastN(daily_costs, 3)
             k == Len(daily_costs)
         IN  IF 10 * k * SumSeq(recent) > 33 * SumSeq(daily_costs) THEN "up"
             ELSE IF 10 * k * SumSeq(recent) < 27 * SumSeq(daily_costs) THEN "down"
             ELSE "stable"
    ELSE "stable"

\* the trend, or "StatisticsError" where statistics.mean is given no data.
\* recent_avg > older_avg * 1.1  <=>  10 * k * sum(recent) > 33 * sum(older),
\* recent_avg < older_avg * 0.9  <=>  10 * k * sum(recent) < 27 * sum(older),
\* with k = len(older) and 3 = len(recent)
Trend(daily_costs) ==
    IF Len(daily_costs) >= 3
    THEN LET recent == LastN(daily_costs, 3)
             older == DropLastN(daily_costs, 3)
             k == Len(older)
         IN  IF k = 0 THEN "StatisticsError"
             ELSE IF 10 * k * SumSeq(recent) > 33 * SumSeq(older) THEN "up"
             ELSE IF 10 * k * SumSeq(recent) < 27 * SumSeq(older) THEN "down"
             ELSE "stable"
    ELSE "stable"

PredictMonthlyCost(usage, u, clock) ==
    IF ~HasLedger(usage, u) THEN ZeroPrediction
    ELSE LET ledger == usage[u]
             daily_costs == DailyCosts(ledger)
             n == Len(daily_costs)
             total == SumSeq(daily_costs)
             today == DateOf(clock)
             current == CurrentPeriodCost(ledger, today)
             days_remaining == DaysRemaining(today)
             trend == Trend(daily_costs)
         IN  IF trend = "StatisticsError"
             THEN [ok |-> FALSE, error |-> "StatisticsError"]
             ELSE [ok |-> TRUE,
                   daily_average |-> RoundDiv(total, n),
                   current_period_cost |-> current,
                   projected_period_end |->
                       RoundDiv(current * n + total * days_remaining, n),
                   days_remaining |-> days_remaining,
                   confidence |-> Confidence(n),
                   trend |-> trend]

Call(name, u, arg, out) ==
    [op |-> name, user |-> u, arg |-> arg, at |-> now, out |-> out]

\* a read operation changes nothing but what the caller holds
ReadFrame ==
    UNCHANGED <<user_usage, learning_enabled, user_history, provider_calibration,
                pi_learning_enabled, now, calls>>

predict_monthly_cost(u) ==
    /\ result' = Call("predict_monthly_cost", u, None,
                      PredictMonthlyCost(user_usage, u, now))
    /\ ReadFrame

(***************************************************************************)
(* CostPredictionEngine.detect_anomalies                                   *)
(***************************************************************************)
\* usage.index(r) + 1: the position of the first record equal to r
IndexOf(s, x) ==
    CHOOSE i \in 1..Len(s) : s[i] = x /\ \A j \in 1..(i - 1) : s[j] # x

\* as RecentWindow, but the records of the last lookback_days calendar days
RecentWindowByCalendar(ledger, lookback_days) ==
    SelectSeq(ledger, LAMBDA r :
        \E day \in 0..now : DateOf(day) = r.date /\ now - day < lookback_days)

\* [r for r in usage if len(usage) - usage.index(r) <= lookback_days]
RecentWindow(ledger, lookback_days) ==
    SelectSeq(ledger, LAMBDA r : Len(ledger) - (IndexOf(ledger, r) - 1) <= lookback_days)

RECURSIVE Gcd(_, _)
Gcd(a, b) == IF b = 0 THEN a ELSE Gcd(b, a % b)

RECURSIVE GcdSeq(_)
GcdSeq(s) == IF s = <<>> THEN 0 ELSE Gcd(Abs(s[1]), GcdSeq(Tail(s)))

\* the costs of the window divided by their common divisor: every comparison of
\* detect_anomalies is homogeneous in the costs, and the smaller numbers keep the
\* squares below within the integers of the checker
Scaled(daily_costs) ==
    LET g == GcdSeq(daily_costs)
    IN  IF g = 0 THEN daily_costs
        ELSE [i \in 1..Len(daily_costs) |-> daily_costs[i] \div g]

\* avg_cost = statistics.mean(daily_costs): the exact sum divided by n, rounded once
Mean(daily_costs) == Float(SumSeq(daily_costs), Len(daily_costs))

\* the costs as the floats they are
RECURSIVE Floats(_)
Floats(costs) ==
    IF costs = <<>> THEN <<>> ELSE <<Float(costs[1], 1)>> \o Floats(Tail(costs))

\* daily_costs, avg_cost and stdev, computed once before the loop, with the
\* multiples of avg_cost that the loop compares every cost with; of stdev the
\* loop needs the sample variance (n*sum(x^2) - sum(x)^2) / (n*(n-1)), kept as its
\* numerator over the scaled costs xs
Statistics(daily_costs) ==
    LET xs == Scaled(daily_costs)
        S == SumSeq(xs)
        avg_cost == Mean(daily_costs)
    IN  [daily_costs |-> daily_costs,
         floats |-> Floats(daily_costs),
         twice |-> FloatTimes(avg_cost, 2, 0),
         thrice |-> FloatTimes(avg_cost, 3, 0),
         half_more |-> FloatTimes(avg_cost, 3, 1),
         normal_cost |-> RoundDiv(SumSeq(daily_costs), Len(daily_costs)),
         xs |-> xs,
         sum |-> S,
         variance |-> Len(xs) * SumSquares(xs) - S * S]

\* statistics.stdev(xs) > 0
StdevPositive(st) == st.variance > 0

\* cost > avg_cost + 2 * stdev, for xs[i] among xs:
\* (n*c - S)^2 * (n - 1) > 4 * n * (n*sum(x^2) - S^2) and n*c > S
AboveTwoStdev(st, i) ==
    LET n == Len(st.xs)
        dev == n * st.xs[i] - st.sum
    IN  /\ dev > 0
        /\ dev * dev * (n - 1) > 4 * n * st.variance

\* cost > avg_cost * 2, cost > avg_cost * 3, daily_costs[i] > avg_cost * 1.5
AboveAverage(st, i, multiple) == FloatAbove(st.floats[i], multiple)

\* cost > avg_cost * 2 or (stdev > 0 and cost > avg_cost + 2 * stdev); the second
\* comparison is made on the exact values
IsSpike(st, i) ==
    \/ AboveAverage(st, i, st.twice)
    \/ StdevPositive(st) /\ AboveTwoStdev(st, i)

\* as SpikeSeverity, but HIGH from 3 times the average on
SpikeSeverityFromThreefold(st, i) ==
    IF ~FloatAbove(st.thrice, st.floats[i])
    THEN "HIGH" ELSE "MEDIUM"

\* 'HIGH' if cost > avg_cost * 3 else 'MEDIUM'
SpikeSeverity(st, i) ==
    IF AboveAverage(st, i, st.thrice) THEN "HIGH" ELSE "MEDIUM"

\* as IsUnusualPattern, but only for a day that is no spike
IsUnusualPatternUnlessSpike(st, i) ==
    /\ i >= 2
    /\ AboveAverage(st, i, st.half_more)
    /\ AboveAverage(st, i - 1, st.half_more)
    /\ ~AboveAverage(st, i, st.twice)

\* daily_costs[i] > avg_cost * 1.5 and daily_costs[i-1] > avg_cost * 1.5
IsUnusualPattern(st, i) ==
    /\ i >= 2
    /\ AboveAverage(st, i, st.half_more)
    /\ AboveAverage(st, i - 1, st.half_more)

AnomaliesAt(recent, st, i) ==
    LET spike == IF IsSpike(st, i)
                 THEN <<[date |-> recent[i].date, type |-> "SPIKE",
                         normal_cost |-> st.normal_cost,
                         actual_cost |-> st.daily_costs[i],
                         severity |-> SpikeSeverity(st, i)]>>
                 ELSE <<>>
        pattern == IF IsUnusualPattern(st, i)
                   THEN <<[date |-> recent[i].date, type |-> "UNUSUAL_PATTERN",
                           normal_cost |-> st.normal_cost,
                           actual_cost |-> st.daily_costs[i],
                           severity |-> "MEDIUM"]>>
                   ELSE <<>>
    IN  spike \o pattern

RECURSIVE AnomaliesFrom(_, _, _)
AnomaliesFrom(recent, st, i) ==
    IF i > Len(recent) THEN <<>>
    ELSE AnomaliesAt(recent, st, i) \o AnomaliesFrom(recent, st, i + 1)

DetectAnomalies(usage, u, lookback_days) ==
    IF ~HasLedger(usage, u) THEN [ok |-> TRUE, value |-> <<>>]
    ELSE LET recent == RecentWindow(usage[u], lookback_days)
         IN  IF Len(recent) < 2 THEN [ok |-> TRUE, value |-> <<>>]
             ELSE [ok |-> TRUE,
                   value |-> AnomaliesFrom(recent, Statistics(DailyCosts(recent)), 1)]

\* as detect_anomalies, but creating the ledger of a user who has none
detect_anomalies_creating(u, lookback_days) ==
    /\ result' = Call("detect_anomalies", u, lookback_days,
                      DetectAnomalies(user_usage, u, lookback_days))
    /\ user_usage' = IF u \in DOMAIN user_usage THEN user_usage
                     ELSE user_usage @@ (u :> <<>>)
    /\ UNCHANGED <<learning_enabled, user_history, provider_calibration,
                   pi_learning_enabled, now, calls>>

detect_anomalies(u, lookback_days) ==
    /\ result' = Call("detect_anomalies", u, lookback_days,
                      DetectAnomalies(user_usage, u, lookback_days))
    /\ ReadFrame

(***************************************************************************)
(* CostPredictionEngine.recommend_cost_reduction                           *)
(* by_provider is [given |-> FALSE] for None, else [given |-> TRUE,         *)
(* items |-> the dict's items in insertion order, each [provider, cost,    *)
(* tokens]]                                                                *)
(***************************************************************************)
\* max(provider_costs.items(), key=lambda x: x[1]): the first item of largest cost
MostExpensive(items) ==
    items[CHOOSE i \in 1..Len(items) :
            /\ \A j \in 1..Len(items) : items[j].cost <= items[i].cost
            /\ \A j \in 1..(i - 1) : items[j].cost < items[i].cost]

\* the DIVERSIFY_PROVIDERS rule; it raises ZeroDivisionError where the costs of a
\* non-empty by_provider sum to zero
Diversify(by_provider) ==
    IF ~by_provider.given \/ by_provider.items = <<>>
    THEN [ok |-> TRUE, value |-> <<>>]
    ELSE LET items == by_provider.items
             most == MostExpensive(items)
             total == SumSeq([i \in 1..Len(items) |-> items[i].cost])
         IN  IF total = 0 THEN [ok |-> FALSE, error |-> "ZeroDivisionError"]
             ELSE IF (total > 0 /\ 2 * most.cost > total)
                      \/ (total < 0 /\ 2 * most.cost < total)
             THEN [ok |-> TRUE, value |->
                    <<[type |-> "DIVERSIFY_PROVIDERS", provider |-> most.provider,
                       current_percentage |-> RoundDiv(1000 * most.cost, Abs(total))
                                              * (IF total < 0 THEN -1 ELSE 1),
                       potential_savings |-> RoundDiv(most.cost, 10)]>>]
             ELSE [ok |-> TRUE, value |-> <<>>]

\* level_stats[level]['cost'], summed record by record; 0 for a level never used
LevelCost(ledger, level) ==
    LET used == SelectSeq(ledger, LAMBDA r : level \in DOMAIN r.by_level)
    IN  FloatSum([i \in 1..Len(used) |-> used[i].by_level[level].cost])

LevelUsed(ledger, level) ==
    \E i \in 1..Len(ledger) : level \in DOMAIN ledger[i].by_level

\* (level_stats[level]['cost'] / total_cost) * 100 > pct if total_cost > 0
LevelShareAbove(ledger, level, pct) ==
    LET total == FloatSum(DailyCosts(ledger))
    IN  /\ total > 0
        /\ FloatAbove(FloatTimes(Float(LevelCost(ledger, level), total), 100, 0),
                      Float(pct, 1))

SwitchLevel(ledger) ==
    LET total == FloatSum(DailyCosts(ledger))
        agg == LevelCost(ledger, "aggressive")
    IN  IF LevelUsed(ledger, "aggressive") /\ LevelShareAbove(ledger, "aggressive", 30)
        THEN <<[type |-> "SWITCH_OPTIMIZATION_LEVEL", current_level |-> "aggressive",
                recommended_level |-> "balanced",
                current_percentage |-> RoundDiv(1000 * agg, total),
                potential_savings |-> RoundDiv(total, 20)]>>
        ELSE <<>>

IncreaseOptimization(ledger) ==
    LET total == FloatSum(DailyCosts(ledger))
    IN  IF /\ LevelUsed(ledger, "balanced") /\ LevelUsed(ledger, "aggressive")
           /\ LevelShareAbove(ledger, "balanced", 70)
        THEN <<[type |-> "INCREASE_OPTIMIZATION", current_level |-> "balanced",
                recommended_level |-> "aggressive",
                potential_savings |-> RoundDiv(7 * total, 50)]>>
        ELSE <<>>

\* mean of the last 7 daily costs above 10 dollars
BudgetAlert(ledger) ==
    LET s7 == SumSeq(LastN(DailyCosts(ledger), 7))
    IN  IF Len(ledger) >= 7 /\ s7 > 7 * 1000
        THEN <<[type |-> "BUDGET_ALERT", daily_average |-> RoundDiv(s7, 7),
                monthly_projection |-> RoundDiv(30 * s7, 7),
                potential_savings |-> RoundDiv(3 * s7, 7)]>>
        ELSE <<>>

\* as RecommendCostReduction, but with the provider rule ahead of the check for
\* a user without history
RecommendNoEarlyReturn(usage, u, by_provider) ==
    LET diversify == Diversify(by_provider)
    IN  IF ~diversify.ok THEN diversify
        ELSE IF ~HasLedger(usage, u) THEN [ok |-> TRUE, value |-> diversify.value]
        ELSE [ok |-> TRUE,
              value |-> diversify.value \o SwitchLevel(usage[u])
                        \o IncreaseOptimization(usage[u]) \o BudgetAlert(usage[u])]

RecommendCostReduction(usage, u, by_provider) ==
    IF ~HasLedger(usage, u) THEN [ok |-> TRUE, value |-> <<>>]
    ELSE LET ledger == usage[u]
             diversify == Diversify(by_provider)
         IN  IF ~diversify.ok THEN diversify
             ELSE [ok |-> TRUE,
                   value |-> diversify.value \o SwitchLevel(ledger)
                             \o IncreaseOptimization(ledger) \o BudgetAlert(ledger)]

recommend_cost_reduction(u, by_provider) ==
    /\ result' = Call("recommend_cost_reduction", u, by_provider,
                      RecommendCostReduction(user_usage, u, by_provider))
    /\ ReadFrame

(***************************************************************************)
(* CostPredictionEngine.get_efficiency_score                               *)
(* cost_per_token is total_cost / total_tokens dollars, with total_cost in *)
(* cents: cost_per_token / optimal = 1000 * total_cost / (3 * total_tokens)*)
(***************************************************************************)
\* as CostPerTokenScore, but without the max(0, ...)
CostPerTokenScoreNoFloor(total_cost, total_tokens) ==
    IF total_tokens = 0 THEN [num |-> 50, den |-> 1]
    ELSE IF 2000 * total_cost <= 9 * total_tokens THEN [num |-> 100, den |-> 1]
    ELSE IF 1000 * total_cost <= 6 * total_tokens THEN [num |-> 80, den |-> 1]
    ELSE [num |-> 300 * total_tokens - 10000 * total_cost, den |-> 3 * total_tokens]

\* cost_per_token_score as a fraction [num, den] (den > 0)
CostPerTokenScore(total_cost, total_tokens) ==
    IF total_tokens = 0 THEN [num |-> 50, den |-> 1]
    ELSE IF 2000 * total_cost <= 9 * total_tokens THEN [num |-> 100, den |-> 1]
    ELSE IF 1000 * total_cost <= 6 * total_tokens THEN [num |-> 80, den |-> 1]
    ELSE [num |-> Max(0, 300 * total_tokens - 10000 * total_cost),
          den |-> 3 * total_tokens]

OptimizationScore(ledger) ==
    LET total_cost == SumSeq(DailyCosts(ledger))
    IN  IF LevelUsed(ledger, "aggressive")
        THEN IF total_cost > 0
             THEN TruncDiv(100 * LevelCost(ledger, "aggressive"), total_cost)
             ELSE 0
        ELSE 50

\* recent < older * 0.9 and recent < older * 1.1 on the sums of 7 daily costs
TrendScore(ledger) ==
    IF Len(ledger) >= 7
    THEN LET daily_costs == DailyCosts(ledger)
             recent == SumSeq(LastN(daily_costs, 7))
             older == IF Len(ledger) >= 14
                      THEN SumSeq(LastN(DropLastN(daily_costs, 7), 7))
                      ELSE recent
         IN  IF 10 * recent < 9 * older THEN 100
             ELSE IF 10 * recent < 11 * older THEN 75
             ELSE 50
    ELSE 75

EfficiencyMessage(score) ==
    IF score >= 90 THEN "Excellent cost efficiency! Keep it up."
    ELSE IF score >= 75 THEN "Good cost efficiency. Some minor optimizations possible."
    ELSE IF score >= 50 THEN "Average cost efficiency. Review recommendations."
    ELSE "Low cost efficiency. Consider optimization strategies."

\* int(cost_per_token_score * 0.4 + optimization_score * 0.3 + trend_score * 0.3):
\* the integer part of (4 * num / den + 3 * (optimization + trend)) / 10, which is
\* that of (floor(4 * num / den) + 3 * (optimization + trend)) / 10
OverallScore(cpt_score, optimization_score, trend_score) ==
    LET fourfold == 4 * (cpt_score.num \div cpt_score.den)
                    + (4 * (cpt_score.num % cpt_score.den)) \div cpt_score.den
    IN  TruncDiv(fourfold + 3 * (optimization_score + trend_score), 10)

GetEfficiencyScore(usage, u) ==
    IF ~HasLedger(usage, u)
    THEN [ok |-> TRUE, score |-> 0, message |-> "Not enough data", breakdown |-> EmptyDict]
    ELSE LET ledger == usage[u]
             total_cost == SumSeq(DailyCosts(ledger))
             total_tokens == SumSeq([i \in 1..Len(ledger) |-> ledger[i].total_tokens])
             cpt_score == CostPerTokenScore(total_cost, total_tokens)
             optimization_score == OptimizationScore(ledger)
             trend_score == TrendScore(ledger)
             overall_score == OverallScore(cpt_score, optimization_score, trend_score)
         IN  IF total_tokens = 0
             THEN \* the returned dict reads cost_per_token, bound only when tokens > 0
                  [ok |-> FALSE, error |-> "UnboundLocalError"]
             ELSE [ok |-> TRUE,
                   score |-> Min(100, overall_score),
                   message |-> EfficiencyMessage(overall_score),
                   breakdown |->
                       [cost_per_token |-> TruncDiv(cpt_score.num, cpt_score.den),
                        optimization_usage |-> optimization_score,
                        trend |-> trend_score],
                   cost_per_token |-> [cents |-> total_cost, tokens |-> total_tokens],
                   total_tokens_analyzed |-> total_tokens]

get_efficiency_score(u) ==
    /\ result' = Call("get_efficiency_score", u, None,
                      GetEfficiencyScore(user_usage, u))
    /\ ReadFrame

(***************************************************************************)
(* ProviderIntelligence: the static tables                                 *)
(* Prices are in micro-dollars per 1000 tokens, so that a cost             *)
(* tokens * price is in nano-dollars; the per-model token limits of the    *)
(* table are read by no operation and are left out.                        *)
(***************************************************************************)
PROVIDERS ==
    [openai |-> [models |-> <<"gpt-4-turbo", "gpt-4", "gpt-3.5-turbo">>,
                 cost_per_1k_input |-> 30000, cost_per_1k_output |-> 60000,
                 speed |-> 1, quality |-> 1],
     anthropic |-> [models |-> <<"claude-3-opus", "claude-3-sonnet", "claude-3-haiku">>,
                    cost_per_1k_input |-> 15000, cost_per_1k_output |-> 75000,
                    speed |-> 2, quality |-> 2],
     google |-> [models |-> <<"gemini-pro", "gemini-1.5-pro">>,
                 cost_per_1k_input |-> 125, cost_per_1k_output |-> 375,
                 speed |-> 2, quality |-> 2],
     azure |-> [models |-> <<"gpt-4-deployment", "gpt-35-turbo">>,
                cost_per_1k_input |-> 30000, cost_per_1k_output |-> 60000,
                speed |-> 1, quality |-> 1],
     groq |-> [models |-> <<"mixtral-8x7b", "llama2-70b">>,
               cost_per_1k_input |-> 500, cost_per_1k_output |-> 1500,
               speed |-> 3, quality |-> 3]]

\* self.PROVIDERS.keys(), in the order of the dict
ProviderOrder == <<"openai", "anthropic", "google", "azure", "groq">>

\* tokens_saved_pct of each level, in percent
OPTIMIZATION_LEVELS ==
    <<[level |-> "conservative", tokens_saved_pct |-> 15,
       description |-> "Minimal risk, 15% savings"],
      [level |-> "balanced", tokens_saved_pct |-> 28,
       description |-> "Recommended, 28% savings"],
      [level |-> "aggressive", tokens_saved_pct |-> 42,
       description |-> "Fast results, 42% savings"]>>

Range(s) == {s[i] : i \in 1..Len(s)}

\* a fraction in lowest terms (d > 0)
Frac(n, d) ==
    LET g == Gcd(Abs(n), d)
    IN  [num |-> n \div g, den |-> d \div g]

RECURSIVE LongDiv(_, _, _, _)
\* <<quotient, remainder>> of (q * d + r) * 10^k by d
LongDiv(q, r, d, k) ==
    IF k = 0 THEN <<q, r>>
    ELSE LongDiv(q * 10 + (r * 10) \div d, (r * 10) % d, d, k - 1)

\* round(n * 10^k / d), ties to even (n >= 0, d > 0)
RoundDivPow10(n, k, d) ==
    LET qr == LongDiv(n \div d, n % d, d, k)
        q == qr[1]
        r == qr[2]
    IN  IF 2 * r < d THEN q
        ELSE IF 2 * r > d THEN q + 1
        ELSE IF q % 2 = 0 THEN q ELSE q + 1

\* as EstimatedInputTokens, but counting modulo 1500 tokens
EstimatedInputTokensWrapped(calibration, text_len, provider) ==
    LET raw == (text_len \div 4) % 1500
    IN  IF provider \in DOMAIN calibration
        THEN TruncDiv(raw * calibration[provider].token_ratio.num,
                      calibration[provider].token_ratio.den)
        ELSE raw

(***************************************************************************)
(* ProviderIntelligence.estimate_provider_tokens                           *)
(* text_len is len(text); model is "" for None.  Money of the result:      *)
(* cost_usd and cost_per_1k_tokens in 1/10000 dollar (round(.., 4)),       *)
(* tokens_per_dollar in hundredths (round(.., 2)).                         *)
(***************************************************************************)
\* int(estimated_input_tokens * calib.get('token_ratio', 1.0)) when calibrated
EstimatedInputTokens(calibration, text_len, provider) ==
    LET raw == text_len \div 4
    IN  IF provider \in DOMAIN calibration
        THEN TruncDiv(raw * calibration[provider].token_ratio.num,
                      calibration[provider].token_ratio.den)
        ELSE raw

\* int(estimated_input_tokens * 0.2)
EstimatedOutputTokens(input_tokens) == TruncDiv(input_tokens, 5)

EstimateProviderTokens(calibration, text_len, provider, model) ==
    IF provider \notin DOMAIN PROVIDERS
    THEN [ok |-> FALSE, error |-> "ValueError"]
    ELSE LET provider_config == PROVIDERS[provider]
             chosen == IF model = "" THEN provider_config.models[1] ELSE model
             input_tokens == EstimatedInputTokens(calibration, text_len, provider)
             output_tokens == EstimatedOutputTokens(input_tokens)
             total_tokens == input_tokens + output_tokens
             \* total_cost in nano-dollars
             total_cost == input_tokens * provider_config.cost_per_1k_input
                           + output_tokens * provider_config.cost_per_1k_output
         IN  IF chosen \notin Range(provider_config.models)
             THEN [ok |-> FALSE, error |-> "ValueError"]
             ELSE IF total_tokens = 0
             THEN \* (total_cost * 1000) / (input + output tokens)
                  [ok |-> FALSE, error |-> "ZeroDivisionError"]
             ELSE [ok |-> TRUE,
                   provider |-> provider,
                   model |-> chosen,
                   estimated_input_tokens |-> input_tokens,
                   estimated_output_tokens |-> output_tokens,
                   total_tokens |-> total_tokens,
                   cost_usd |-> RoundDiv(total_cost, 100000),
                   cost_per_1k_tokens |-> RoundDiv(total_cost, 100 * total_tokens),
                   tokens_per_dollar |->
                       IF total_cost > 0
                       THEN RoundDivPow10(total_tokens, 11, total_cost)
                       ELSE 0]

estimate_provider_tokens(text_len, provider, model) ==
    /\ result' = Call("estimate_provider_tokens", "", 
                      [text_len |-> text_len, provider |-> provider, model |-> model],
                      EstimateProviderTokens(provider_calibration, text_len,
                                             provider, model))
    /\ ReadFrame

(***************************************************************************)
(* ProviderIntelligence.get_provider_recommendations                       *)
(* user_preferences is [given |-> FALSE] for None, else [given |-> TRUE,   *)
(* priority, budget_limit], budget_limit in 1/10000 dollar                 *)
(***************************************************************************)
DefaultPreferences == [given |-> TRUE, priority |-> "cost", budget_limit |-> 10000]

RecommendationBadge(estimate, preferences) ==
    LET priority == preferences.priority
    IN  IF priority = "cost" /\ estimate.cost_usd < 100 THEN "LOWEST_COST"
        ELSE IF priority = "speed" /\ PROVIDERS[estimate.provider].speed = 1
        THEN "FASTEST"
        ELSE IF priority = "quality" /\ PROVIDERS[estimate.provider].quality = 1
        THEN "BEST_QUALITY"
        ELSE IF estimate.tokens_per_dollar > 50000 * 100 THEN "BEST_VALUE"
        ELSE "GOOD_CHOICE"

OptimizationPotential(estimate) ==
    [i \in 1..Len(OPTIMIZATION_LEVELS) |->
        LET config == OPTIMIZATION_LEVELS[i]
            tokens_saved == TruncDiv(estimate.total_tokens * config.tokens_saved_pct, 100)
        IN  [level |-> config.level,
             tokens_saved |-> tokens_saved,
             tokens_saved_pct |-> config.tokens_saved_pct,
             cost_saved |-> RoundDiv(tokens_saved * estimate.cost_per_1k_tokens, 1000),
             cost_saved_pct |-> config.tokens_saved_pct,
             description |-> config.description]]

\* the rank as a fraction, or ZeroDivisionError for a budget_limit of 0 that the
\* cost does not exceed
\* as CalculateRank, but without the budget filter
CalculateRankNoGate(estimate, preferences) ==
    LET priority == preferences.priority
        budget_limit == preferences.budget_limit
    IN  IF priority = "cost"
        THEN IF budget_limit = 0 THEN [ok |-> FALSE, error |-> "ZeroDivisionError"]
             ELSE [ok |-> TRUE,
                   value |-> IF budget_limit > 0
                             THEN Frac(budget_limit - estimate.cost_usd, budget_limit)
                             ELSE Frac(estimate.cost_usd - budget_limit, -budget_limit)]
        ELSE IF priority = "speed"
        THEN [ok |-> TRUE, value |-> Frac(1, PROVIDERS[estimate.provider].speed)]
        ELSE IF priority = "quality"
        THEN [ok |-> TRUE, value |-> Frac(1, PROVIDERS[estimate.provider].quality)]
        ELSE [ok |-> TRUE, value |-> Frac(estimate.tokens_per_dollar, 100 * 100000)]

CalculateRank(estimate, preferences) ==
    LET priority == preferences.priority
        budget_limit == preferences.budget_limit
    IN  IF estimate.cost_usd > budget_limit THEN [ok |-> TRUE, value |-> Frac(0, 1)]
        ELSE IF priority = "cost"
        THEN IF budget_limit = 0 THEN [ok |-> FALSE, error |-> "ZeroDivisionError"]
             ELSE [ok |-> TRUE,
                   value |-> IF budget_limit > 0
                             THEN Frac(budget_limit - estimate.cost_usd, budget_limit)
                             ELSE Frac(estimate.cost_usd - budget_limit, -budget_limit)]
        ELSE IF priority = "speed"
        THEN [ok |-> TRUE, value |-> Frac(1, PROVIDERS[estimate.provider].speed)]
        ELSE IF priority = "quality"
        THEN [ok |-> TRUE, value |-> Frac(1, PROVIDERS[estimate.provider].quality)]
        ELSE [ok |-> TRUE, value |-> Frac(estimate.tokens_per_dollar, 100 * 100000)]

\* one entry of the recommendations list, or the error its computation raises
RecommendationFor(calibration, text_len, provider, preferences) ==
    LET estimate == EstimateProviderTokens(calibration, text_len, provider, "")
        rank == CalculateRank(estimate, preferences)
    IN  IF ~estimate.ok THEN estimate
        ELSE IF ~rank.ok THEN rank
        ELSE [ok |-> TRUE,
              provider |-> estimate.provider,
              model |-> estimate.model,
              estimated_tokens |-> estimate.total_tokens,
              cost_usd |-> estimate.cost_usd,
              tokens_per_dollar |-> estimate.tokens_per_dollar,
              cost_per_1k_tokens |-> estimate.cost_per_1k_tokens,
              optimization_potential |-> OptimizationPotential(estimate),
              recommendation |-> RecommendationBadge(estimate, preferences),
              rank |-> rank.value]

\* as SortsBefore, but without reverse=True for the tokens per dollar
SortsBeforeAscending(x, y, priority) ==
    IF priority = "cost" THEN x.cost_usd < y.cost_usd
    ELSE IF priority = "speed"
    THEN PROVIDERS[x.provider].speed < PROVIDERS[y.provider].speed
    ELSE IF priority = "quality"
    THEN PROVIDERS[x.provider].quality < PROVIDERS[y.provider].quality
    ELSE x.tokens_per_dollar < y.tokens_per_dollar

\* whether x sorts strictly before y under the priority's key
SortsBefore(x, y, priority) ==
    IF priority = "cost" THEN x.cost_usd < y.cost_usd
    ELSE IF priority = "speed"
    THEN PROVIDERS[x.provider].speed < PROVIDERS[y.provider].speed
    ELSE IF priority = "quality"
    THEN PROVIDERS[x.provider].quality < PROVIDERS[y.provider].quality
    ELSE x.tokens_per_dollar > y.tokens_per_dollar

\* x inserted into the sorted s behind every element that does not sort after it
InsertSorted(s, x, priority) ==
    LET behind == {i \in 1..Len(s) : ~SortsBefore(x, s[i], priority)}
        k == IF behind = {} THEN 0
             ELSE CHOOSE i \in behind : \A j \in behind : j <= i
    IN  SubSeq(s, 1, k) \o <<x>> \o SubSeq(s, k + 1, Len(s))

RECURSIVE StableSort(_, _)
\* list.sort(key=...): a stable sort, also with reverse=True
StableSort(s, priority) ==
    IF s = <<>> THEN <<>>
    ELSE InsertSorted(StableSort(DropLastN(s, 1), priority), s[Len(s)], priority)

GetProviderRecommendations(calibration, text_len, user_preferences) ==
    LET preferences == IF user_preferences.given THEN user_preferences
                       ELSE DefaultPreferences
        recommendations ==
            [i \in 1..Len(ProviderOrder) |->
                RecommendationFor(calibration, text_len, ProviderOrder[i], preferences)]
        failed == {i \in 1..Len(recommendations) : ~recommendations[i].ok}
    IN  IF failed # {}
        THEN \* the first provider whose estimate or rank raises ends the call
             recommendations[CHOOSE i \in failed : \A j \in failed : i <= j]
        ELSE [ok |-> TRUE,
              value |-> SubSeq(StableSort(recommendations, preferences.priority),
                               1, Min(3, Len(recommendations)))]

get_provider_recommendations(text_len, user_preferences) ==
    /\ result' = Call("get_provider_recommendations", "",
                      [text_len |-> text_len, user_preferences |-> user_preferences],
                      GetProviderRecommendations(provider_calibration, text_len,
                                                 user_preferences))
    /\ ReadFrame

(***************************************************************************)
(* ProviderIntelligence.learn_from_optimization                            *)
(***************************************************************************)
NewCalibration ==
    [token_ratio |-> Frac(1, 1), sample_count |-> 0, cost_per_token |-> Frac(0, 1)]

\* as MovingAverage, but with the weights of the old and the new ratio exchanged
MovingAverageSwapped(old_ratio, tokens_estimated, tokens_actual) ==
    Frac(7 * tokens_actual * old_ratio.den + 3 * old_ratio.num * tokens_estimated,
         10 * tokens_estimated * old_ratio.den)

\* as MovingAverage, but with alpha = 1.3
MovingAverageOvershoot(old_ratio, tokens_estimated, tokens_actual) ==
    Frac(13 * tokens_actual * old_ratio.den - 3 * old_ratio.num * tokens_estimated,
         10 * tokens_estimated * old_ratio.den)

\* (alpha * new_ratio) + ((1 - alpha) * old_ratio) with alpha = 0.3
MovingAverage(old_ratio, tokens_estimated, tokens_actual) ==
    Frac(3 * tokens_actual * old_ratio.den + 7 * old_ratio.num * tokens_estimated,
         10 * tokens_estimated * old_ratio.den)

\* as UpdateCalibration, but counting only the samples that moved token_ratio
UpdateCalibrationCountingRatios(calib, tokens_estimated, tokens_actual, cost) ==
    [token_ratio |-> IF tokens_estimated > 0
                     THEN MovingAverage(calib.token_ratio, tokens_estimated, tokens_actual)
                     ELSE calib.token_ratio,
     sample_count |-> IF tokens_estimated > 0 THEN calib.sample_count + 1
                      ELSE calib.sample_count,
     cost_per_token |-> IF tokens_actual > 0 THEN Frac(cost, tokens_actual)
                        ELSE Frac(0, 1)]

UpdateCalibration(calib, tokens_estimated, tokens_actual, cost) ==
    [token_ratio |-> IF tokens_estimated > 0
                     THEN MovingAverage(calib.token_ratio, tokens_estimated, tokens_actual)
                     ELSE calib.token_ratio,
     sample_count |-> calib.sample_count + 1,
     \* cents per token
     cost_per_token |-> IF tokens_actual > 0 THEN Frac(cost, tokens_actual)
                        ELSE Frac(0, 1)]

\* as LearnHistory, but with the entry appended to the history of every user
LearnHistoryShared(history, u, entry) ==
    LET history0 == IF u \in DOMAIN history THEN history ELSE history @@ (u :> <<>>)
    IN  [v \in DOMAIN history0 |-> Append(history0[v], entry)]

LearnHistory(history, u, entry) ==
    LET history0 == IF u \in DOMAIN history THEN history ELSE history @@ (u :> <<>>)
    IN  [history0 EXCEPT ![u] = Append(@, entry)]

LearnCalibration(calibration, provider, tokens_estimated, tokens_actual, cost) ==
    LET calibration0 == IF provider \in DOMAIN calibration THEN calibration
                        ELSE calibration @@ (provider :> NewCalibration)
    IN  [calibration0 EXCEPT
            ![provider] = UpdateCalibration(@, tokens_estimated, tokens_actual, cost)]

learn_from_optimization(u, provider, text_len, tokens_estimated, tokens_actual, cost, level) ==
    /\ IF pi_learning_enabled
       THEN /\ user_history' =
                 LearnHistory(user_history, u,
                    [timestamp |-> now, provider |-> provider,
                     tokens_estimated |-> tokens_estimated,
                     tokens_actual |-> tokens_actual, cost |-> cost,
                     optimization_level |-> level, text_length |-> text_len])
            /\ provider_calibration' =
                 LearnCalibration(provider_calibration, provider,
                                  tokens_estimated, tokens_actual, cost)
       ELSE UNCHANGED <<user_history, provider_calibration>>
    /\ result' = Call("learn_from_optimization", u,
                      [provider |-> provider, text_len |-> text_len,
                       tokens_estimated |-> tokens_estimated,
                       tokens_actual |-> tokens_actual, cost |-> cost, level |-> level],
                      None)
    /\ UNCHANGED <<user_usage, learning_enabled, pi_learning_enabled, now, calls>>

(***************************************************************************)
(* record_usage called from several threads of the host. The engine has no *)
(* lock: a call is a sequence of reads and writes of the shared ledger,    *)
(* and the threads' steps interleave. calls.th[t] holds the position (pc)  *)
(* and the locals of the call thread t is in; calls.mode says whether the  *)
(* host serializes the calls of each user.                                 *)
(***************************************************************************)
\* thread t is inside a call
Running(t) == calls.th[t].pc \notin {"idle", "done"}

\* the threads after thread t moved to `me`, the other threads changed by Others
Moved(t, me, Others(_)) ==
    calls' = [calls EXCEPT !.th = [o \in DOMAIN calls.th |->
                                     IF o = t THEN me ELSE Others(o)]]

Same(o) == calls.th[o]

\* the host puts the calls of each user under mutual exclusion
serialize ==
    /\ calls.mode = "free"
    /\ \A t \in DOMAIN calls.th : calls.th[t].pc = "idle"
    /\ calls' = [calls EXCEPT !.mode = "mutex"]
    /\ UNCHANGED <<user_usage, learning_enabled, user_history, provider_calibration,
                   pi_learning_enabled, now, result, first>>

\* thread t enters record_usage(u, p, tk, c, l); lines 82-83
begin_record_usage(t, u, p, tk, c, l) ==
    /\ calls.th[t].pc = "idle"
    /\ calls.mode = "mutex" =>
          \A o \in DOMAIN calls.th : Running(o) => calls.th[o].user # u
    /\ Moved(t, [pc |-> IF learning_enabled THEN "check" ELSE "done",
                 user |-> u, provider |-> p, tokens |-> tk, cost |-> c, level |-> l,
                 recorded |-> learning_enabled,
                 rec |-> 0, tmp |-> 0, dict |-> "", orphan |-> FALSE, stale |-> FALSE],
             Same)
    /\ UNCHANGED <<user_usage, learning_enabled, user_history, provider_calibration,
                   pi_learning_enabled, now, result, first>>

\* lines 85-106: the ledger of the user is looked up and created, the record of
\* today is looked up and appended. A ledger that is created replaces the one
\* another thread created meanwhile: the records the other threads hold are then
\* no longer in the ledger (orphan)
find_or_create_step(t) ==
    LET c == calls.th[t]
        u == c.user
        Orphaned(o) == IF calls.th[o].pc # "idle" /\ calls.th[o].user = u
                          /\ calls.th[o].rec # 0
                       THEN [calls.th[o] EXCEPT !.orphan = TRUE] ELSE calls.th[o]
        i == FindToday(user_usage[u], DateOf(now))
    IN  /\ c.pc \in {"check", "create", "find", "append"}
        /\ CASE c.pc = "check" ->
                  /\ Moved(t, [c EXCEPT !.pc = IF u \in DOMAIN user_usage
                                               THEN "find" ELSE "create"], Same)
                  /\ UNCHANGED user_usage
             [] c.pc = "create" ->
                  /\ user_usage' = (u :> <<>>) @@ user_usage
                  /\ Moved(t, [c EXCEPT !.pc = "find"], Orphaned)
             [] c.pc = "find" ->
                  /\ Moved(t, [c EXCEPT !.pc = IF i = 0 THEN "append" ELSE "cost_read",
                                        !.rec = i], Same)
                  /\ UNCHANGED user_usage
             [] c.pc = "append" ->
                  /\ user_usage' = [user_usage EXCEPT
                                      ![u] = Append(@, NewRecord(DateOf(now)))]
                  /\ Moved(t, [c EXCEPT !.pc = "cost_read",
                                        !.rec = Len(user_usage[u]) + 1], Same)
        /\ UNCHANGED <<learning_enabled, user_history, provider_calibration,
                       pi_learning_enabled, now, result, first>>

\* lines 109-118: total_cost += cost and total_tokens += tokens_used, each a read
\* followed by a write, and the request appended; a write to an orphan record
\* does not reach the ledger
totals_step(t) ==
    LET c == calls.th[t]
        u == c.user
        rec == user_usage[u][c.rec]
        Write(new) == IF c.orphan THEN UNCHANGED user_usage
                      ELSE user_usage' = [user_usage EXCEPT ![u][c.rec] = new]
    IN  /\ c.pc \in {"cost_read", "cost_write", "tokens_read", "tokens_write", "request"}
        /\ CASE c.pc = "cost_read" ->
                  /\ Moved(t, [c EXCEPT !.pc = "cost_write",
                                        !.tmp = IF c.orphan THEN 0 ELSE rec.total_cost],
                           Same)
                  /\ UNCHANGED user_usage
             [] c.pc = "cost_write" ->
                  /\ Write([rec EXCEPT !.total_cost = FloatAdd(c.tmp, c.cost)])
                  /\ Moved(t, [c EXCEPT !.pc = "tokens_read", !.tmp = 0], Same)
             [] c.pc = "tokens_read" ->
                  /\ Moved(t, [c EXCEPT !.pc = "tokens_write",
                                        !.tmp = IF c.orphan THEN 0 ELSE rec.total_tokens],
                           Same)
                  /\ UNCHANGED user_usage
             [] c.pc = "tokens_write" ->
                  /\ Write([rec EXCEPT !.total_tokens = c.tmp + c.tokens])
                  /\ Moved(t, [c EXCEPT !.pc = "request", !.tmp = 0], Same)
             [] c.pc = "request" ->
                  /\ Write([rec EXCEPT !.requests =
                              Append(@, [timestamp |-> DateOf(now), provider |-> c.provider,
                                         tokens |-> c.tokens, cost |-> c.cost,
                                         level |-> c.level])])
                  /\ Moved(t, [c EXCEPT !.pc = "entry_check", !.dict = "by_provider"],
                           Same)
        /\ UNCHANGED <<learning_enabled, user_history, provider_calibration,
                       pi_learning_enabled, now, result, first>>

\* lines 121-130, for by_provider and then for by_level: the entry of the key is
\* created at 0/0 when it is absent, then its cost and its tokens are read and
\* written. An entry that is created replaces the one another thread is adding
\* to: the write of that thread goes to the replaced entry (stale)
breakdown_step(t) ==
    LET c == calls.th[t]
        u == c.user
        key == IF c.dict = "by_provider" THEN c.provider ELSE c.level
        rec == user_usage[u][c.rec]
        entry == rec[c.dict][key]
        Write(d) == IF c.orphan \/ c.stale THEN UNCHANGED user_usage
                    ELSE user_usage' = [user_usage EXCEPT ![u][c.rec][c.dict] = d]
        Replaced(o) ==
            LET other == calls.th[o]
            IN  IF /\ other.pc \in {"entry_cost_write", "entry_tokens_write"}
                   /\ other.user = u /\ other.rec = c.rec /\ ~other.orphan
                   /\ other.dict = c.dict
                   /\ key = (IF other.dict = "by_provider" THEN other.provider
                             ELSE other.level)
                THEN [other EXCEPT !.stale = TRUE] ELSE other
        after == IF c.dict = "by_provider"
                 THEN [c EXCEPT !.pc = "entry_check", !.dict = "by_level",
                                !.tmp = 0, !.stale = FALSE]
                 ELSE [pc |-> "done", user |-> u, provider |-> c.provider,
                       tokens |-> c.tokens, cost |-> c.cost, level |-> c.level,
                       recorded |-> TRUE,
                       rec |-> 0, tmp |-> 0, dict |-> "", orphan |-> FALSE,
                       stale |-> FALSE]
    IN  /\ c.pc \in {"entry_check", "entry_create", "entry_cost_read", "entry_cost_write",
                     "entry_tokens_read", "entry_tokens_write"}
        /\ CASE c.pc = "entry_check" ->
                  /\ Moved(t, [c EXCEPT !.pc = IF ~c.orphan /\ key \notin DOMAIN rec[c.dict]
                                               THEN "entry_create"
                                               ELSE "entry_cost_read"], Same)
                  /\ UNCHANGED user_usage
             [] c.pc = "entry_create" ->
                  /\ IF c.orphan THEN UNCHANGED user_usage
                     ELSE user_usage' =
                            [user_usage EXCEPT ![u][c.rec][c.dict] =
                                (key :> [cost |-> 0, tokens |-> 0]) @@ @]
                  /\ IF c.orphan THEN Moved(t, [c EXCEPT !.pc = "entry_cost_read"], Same)
                     ELSE Moved(t, [c EXCEPT !.pc = "entry_cost_read"], Replaced)
             [] c.pc = "entry_cost_read" ->
                  /\ Moved(t, [c EXCEPT !.pc = "entry_cost_write",
                                        !.tmp = IF c.orphan THEN 0 ELSE entry.cost],
                           Same)
                  /\ UNCHANGED user_usage
             [] c.pc = "entry_cost_write" ->
                  /\ Write([rec[c.dict] EXCEPT
                              ![key] = [@ EXCEPT !.cost = FloatAdd(c.tmp, c.cost)]])
                  /\ Moved(t, [c EXCEPT !.pc = "entry_tokens_read", !.tmp = 0,
                                        !.stale = FALSE], Same)
             [] c.pc = "entry_tokens_read" ->
                  /\ Moved(t, [c EXCEPT !.pc = "entry_tokens_write",
                                        !.tmp = IF c.orphan THEN 0 ELSE entry.tokens],
                           Same)
                  /\ UNCHANGED user_usage
             [] c.pc = "entry_tokens_write" ->
                  /\ Write([rec[c.dict] EXCEPT
                              ![key] = [@ EXCEPT !.tokens = c.tmp + c.tokens]])
                  /\ Moved(t, after, Same)
        /\ UNCHANGED <<learning_enabled, user_history, provider_calibration,
                       pi_learning_enabled, now, result, first>>

(***************************************************************************)
(* The environment: the wall clock and the engines' public flags           *)
(***************************************************************************)
\* midnight passes
tick ==
    /\ now' = now + 1
    /\ UNCHANGED <<user_usage, learning_enabled, user_history, provider_calibration,
                   pi_learning_enabled, result, first, calls>>

\* the host's clock is set (to an earlier or a later day)
clock_set(day) ==
    /\ day # now
    /\ now' = day
    /\ UNCHANGED <<user_usage, learning_enabled, user_history, provider_calibration,
                   pi_learning_enabled, result, first, calls>>

\* engine.learning_enabled = flag, on the cost engine
set_learning_enabled(flag) ==
    /\ flag # learning_enabled
    /\ learning_enabled' = flag
    /\ UNCHANGED <<user_usage, user_history, provider_calibration,
                   pi_learning_enabled, now, result, first, calls>>

\* no read call is remembered
NoCall == [op |-> "none", user |-> "", arg |-> None, at |-> 0, out |-> None]

(***************************************************************************)
(* Construction: CostPredictionEngine.__init__, ProviderIntelligence.__init__ *)
(***************************************************************************)
Init ==
    /\ user_usage = EmptyDict
    /\ learning_enabled = TRUE
    /\ user_history = EmptyDict
    /\ provider_calibration = EmptyDict
    /\ pi_learning_enabled = TRUE
    /\ now = 0
    /\ result = [op |-> "__init__", user |-> "", arg |-> None, at |-> 0, out |-> None]
    /\ first = NoCall
    /\ calls = [mode |-> "free", th |-> [t \in 1..MaxThreads |-> [pc |-> "idle"]]]

(***************************************************************************)
(* The calls of the checked runs                                           *)
(***************************************************************************)
Users == {"alice", "bob"}

Days == {0, 1}

\* record_usage arguments; cost in cents
EventShapes ==
    {[provider |-> "openai", tokens |-> 1000, cost |-> 3, level |-> "balanced"],
     [provider |-> "google", tokens |-> 0, cost |-> 5, level |-> "aggressive"]}

Lookbacks == {7}

NoBreakdown == [given |-> FALSE, items |-> <<>>]

Breakdowns ==
    {NoBreakdown,
     [given |-> TRUE, items |-> <<[provider |-> "openai", cost |-> 600, tokens |-> 10],
                                   [provider |-> "google", cost |-> 400, tokens |-> 10]>>]}

\* the number of events the ledgers hold
RECURSIVE EventCount(_, _)
EventCount(usage, users) ==
    IF users = {} THEN 0
    ELSE LET u == CHOOSE x \in users : TRUE
         IN  SumSeq([i \in 1..Len(usage[u]) |-> Len(usage[u][i].requests)])
             + EventCount(usage, users \ {u})

\* no earlier read call stays remembered across a change of the ledger
Forget == first' = NoCall

\* a read call may become the remembered one
Remember == first' = first \/ first' = result'

\* The ledger under any users, any order of days (the clock may be set back),
\* and every read operation
Next ==
    \/ \E u \in Users, e \in EventShapes :
          /\ EventCount(user_usage, DOMAIN user_usage) < MaxEvents
          /\ record_usage(u, e.provider, e.tokens, e.cost, e.level)
          /\ Forget
    \/ \E u \in Users : predict_monthly_cost(u) /\ UNCHANGED first
    \/ \E u \in Users, n \in Lookbacks : detect_anomalies(u, n) /\ UNCHANGED first
    \/ \E u \in Users, b \in Breakdowns :
          recommend_cost_reduction(u, b) /\ UNCHANGED first
    \/ \E u \in Users : get_efficiency_score(u) /\ UNCHANGED first
    \/ \E day \in Days : clock_set(day)

Spec == Init /\ [][Next]_vars

(***************************************************************************)
(* The ledger with analytics collection switched off and on                *)
(***************************************************************************)
NextFlag ==
    \/ \E u \in Users, e \in EventShapes :
          /\ EventCount(user_usage, DOMAIN user_usage) < MaxEvents
          /\ record_usage(u, e.provider, e.tokens, e.cost, e.level)
          /\ Forget
    \/ \E flag \in BOOLEAN : set_learning_enabled(flag)
    \/ \E u \in Users : predict_monthly_cost(u) /\ UNCHANGED first
    \/ \E u \in Users, n \in Lookbacks : detect_anomalies(u, n) /\ UNCHANGED first
    \/ \E u \in Users : recommend_cost_reduction(u, NoBreakdown) /\ UNCHANGED first
    \/ \E u \in Users : get_efficiency_score(u) /\ UNCHANGED first
    \/ \E day \in Days : clock_set(day)

SpecFlag == Init /\ [][NextFlag]_vars

(***************************************************************************)
(* A long series of days for one user: one event a day, the clock moving   *)
(* forward only, the forecast and the score read at any point              *)
(***************************************************************************)
SeriesUser == "alice"

SeriesShapes ==
    {[provider |-> "openai", tokens |-> 0, cost |-> 0, level |-> "aggressive"],
     [provider |-> "openai", tokens |-> 200000, cost |-> 500, level |-> "balanced"],
     [provider |-> "openai", tokens |-> 10, cost |-> 1500, level |-> "balanced"]}

LedgerOf(usage, u) == IF u \in DOMAIN usage THEN usage[u] ELSE <<>>

NextSeries ==
    \/ \E e \in SeriesShapes :
          /\ Len(LedgerOf(user_usage, SeriesUser)) < MaxSeries
          /\ FindToday(LedgerOf(user_usage, SeriesUser), DateOf(now)) = 0
          /\ record_usage(SeriesUser, e.provider, e.tokens, e.cost, e.level)
          /\ Forget
    \/ /\ FindToday(LedgerOf(user_usage, SeriesUser), DateOf(now)) # 0
       /\ now + 1 < MaxSeries
       /\ tick
    \/ predict_monthly_cost(SeriesUser) /\ UNCHANGED first
    \/ get_efficiency_score(SeriesUser) /\ UNCHANGED first

SpecSeries == Init /\ [][NextSeries]_vars

(***************************************************************************)
(* Read calls repeated: a read call is remembered and a later call of the  *)
(* same operation is compared with it, whatever happens in between but a   *)
(* change of the ledger                                                    *)
(***************************************************************************)
IdemDays == {0, 1, 2}

IdemShapes ==
    {[provider |-> "openai", tokens |-> 1000, cost |-> 0, level |-> "balanced"],
     [provider |-> "google", tokens |-> 1000, cost |-> 5, level |-> "aggressive"]}

IdemLookbacks == {3}

NextIdem ==
    \/ \E e \in IdemShapes :
          /\ EventCount(user_usage, DOMAIN user_usage) < MaxEvents
          /\ record_usage(SeriesUser, e.provider, e.tokens, e.cost, e.level)
          /\ Forget
    \/ predict_monthly_cost(SeriesUser) /\ Remember
    \/ \E n \in IdemLookbacks : detect_anomalies(SeriesUser, n) /\ Remember
    \/ get_efficiency_score(SeriesUser) /\ Remember
    \/ recommend_cost_reduction(SeriesUser, NoBreakdown) /\ UNCHANGED first
    \/ \E day \in IdemDays : clock_set(day)

SpecIdem == Init /\ [][NextIdem]_vars

(***************************************************************************)
(* The anomaly detector over a window of days: one event a day at most,    *)
(* days without usage in between, any lookback                             *)
(***************************************************************************)
\* record_usage arguments; costs of 5, 6 and 30 dollars, in cents
AnomalyShapes ==
    {[provider |-> "openai", tokens |-> 1000, cost |-> 500, level |-> "balanced"],
     [provider |-> "openai", tokens |-> 1000, cost |-> 600, level |-> "balanced"],
     [provider |-> "google", tokens |-> 1000, cost |-> 3000, level |-> "aggressive"]}

AnomalyLookbacks == {1, 4, 7}

NextAnomaly ==
    \/ \E e \in AnomalyShapes :
          /\ Len(LedgerOf(user_usage, SeriesUser)) < MaxWindow
          /\ FindToday(LedgerOf(user_usage, SeriesUser), DateOf(now)) = 0
          /\ record_usage(SeriesUser, e.provider, e.tokens, e.cost, e.level)
          /\ Forget
    \* midnight passes, also on a day without usage, once the user has usage
    \/ /\ now < MaxWindow
       /\ Len(LedgerOf(user_usage, SeriesUser)) > 0
       /\ now <= Len(LedgerOf(user_usage, SeriesUser))
       /\ tick
    \/ \E n \in AnomalyLookbacks : detect_anomalies(SeriesUser, n) /\ UNCHANGED first

SpecAnomaly == Init /\ [][NextAnomaly]_vars

(***************************************************************************)
(* The provider engine: estimates and recommendations under any            *)
(* calibration that learn_from_optimization builds                         *)
(***************************************************************************)
TextLens == {0, 4, 40, 4000}

ProviderArgs == {"openai", "google", "mistral"}

ModelArgs == {"", "gpt-4"}

Preferences ==
    {[given |-> FALSE],
     [given |-> TRUE, priority |-> "cost", budget_limit |-> 1],
     [given |-> TRUE, priority |-> "speed", budget_limit |-> 10000],
     [given |-> TRUE, priority |-> "quality", budget_limit |-> 10000],
     [given |-> TRUE, priority |-> "value", budget_limit |-> 10000]}

LearnProviders == {"openai", "google"}

\* [tokens_estimated, tokens_actual]
LearnTokens == {<<0, 5>>, <<10, 0>>, <<10, 5>>, <<10, 20>>}

RECURSIVE HistoryCount(_, _)
HistoryCount(history, users) ==
    IF users = {} THEN 0
    ELSE LET u == CHOOSE x \in users : TRUE
         IN  Len(history[u]) + HistoryCount(history, users \ {u})

NextProvider ==
    \/ \E n \in TextLens, p \in ProviderArgs, m \in ModelArgs :
          estimate_provider_tokens(n, p, m) /\ UNCHANGED first
    \/ \E n \in TextLens, prefs \in Preferences :
          get_provider_recommendations(n, prefs) /\ UNCHANGED first
    \/ \E u \in Users, p \in LearnProviders, tk \in LearnTokens :
          /\ HistoryCount(user_history, DOMAIN user_history) < MaxLearn
          /\ learn_from_optimization(u, p, 40, tk[1], tk[2], 2, "balanced")
          /\ Forget

SpecProvider == Init /\ [][NextProvider]_vars

(***************************************************************************)
(* The provider engine's learning: any users, providers and token counts   *)
(***************************************************************************)
\* [tokens_estimated, tokens_actual]; token counts are non-negative
CalibrationTokens == {<<0, 5>>, <<1, 0>>, <<2, 1>>, <<1, 2>>}

NextLearn ==
    \E u \in Users, p \in LearnProviders, tk \in CalibrationTokens :
        /\ HistoryCount(user_history, DOMAIN user_history) < MaxCalls
        /\ learn_from_optimization(u, p, 40, tk[1], tk[2], 2, "balanced")
        /\ Forget

SpecLearn == Init /\ [][NextLearn]_vars

(***************************************************************************)
(* Estimates compared: an estimate is remembered and a later one, under    *)
(* the same calibration, is compared with it                               *)
(***************************************************************************)
ScalingLens == {0, 4, 5, 40, 4000, 8000}

ScalingProviders == {"openai", "google"}

\* the provider's default model
ScalingModels == {""}

NextScaling ==
    \/ \E n \in ScalingLens, p \in ScalingProviders, m \in ScalingModels :
          estimate_provider_tokens(n, p, m) /\ Remember
    \/ \E p \in ScalingProviders, tk \in LearnTokens :
          /\ HistoryCount(user_history, DOMAIN user_history) < MaxLearn
          /\ learn_from_optimization(SeriesUser, p, 40, tk[1], tk[2], 2, "balanced")
          /\ Forget

SpecScaling == Init /\ [][NextScaling]_vars

(***************************************************************************)
(* Recommendations under every priority, with tight and generous budgets,  *)
(* and under the calibrations that learning builds                         *)
(***************************************************************************)
RecommendLens == {0, 40, 4000}

\* budget_limit in 1/10000 dollar
RecommendPreferences ==
    {[given |-> FALSE],
     [given |-> TRUE, priority |-> "cost", budget_limit |-> 1],
     [given |-> TRUE, priority |-> "speed", budget_limit |-> 350],
     [given |-> TRUE, priority |-> "quality", budget_limit |-> 10000],
     [given |-> TRUE, priority |-> "value", budget_limit |-> 10000]}

NextRecommend ==
    \/ \E n \in RecommendLens, prefs \in RecommendPreferences :
          get_provider_recommendations(n, prefs) /\ UNCHANGED first
    \/ \E p \in LearnProviders, tk \in LearnTokens :
          /\ HistoryCount(user_history, DOMAIN user_history) < MaxLearn
          /\ learn_from_optimization(SeriesUser, p, 40, tk[1], tk[2], 2, "balanced")
          /\ Forget

SpecRecommend == Init /\ [][NextRecommend]_vars

(***************************************************************************)
(* Short ledgers with days that cost nothing                               *)
(***************************************************************************)
\* one event a day, of no cost, of 5 dollars or of 61.49 dollars
NextSeverity ==
    \/ \E c \in {0, 500, 6149} :
          /\ Len(LedgerOf(user_usage, SeriesUser)) < MaxEvents
          /\ FindToday(LedgerOf(user_usage, SeriesUser), DateOf(now)) = 0
          /\ record_usage(SeriesUser, "openai", 1000, c, "balanced")
          /\ Forget
    \/ /\ now < MaxEvents
       /\ now < Len(LedgerOf(user_usage, SeriesUser))
       /\ tick
    \/ \E n \in {2, 7} : detect_anomalies(SeriesUser, n) /\ UNCHANGED first

SpecSeverity == Init /\ [][NextSeverity]_vars

(***************************************************************************)
(* Recommendations: ledgers of one day with both levels, provider          *)
(* breakdowns with equal and with zero costs                               *)
(***************************************************************************)
AdviceShapes ==
    {[provider |-> "openai", tokens |-> 1000, cost |-> 913, level |-> "aggressive"],
     [provider |-> "google", tokens |-> 1000, cost |-> 6391, level |-> "balanced"]}

AdviceBreakdowns ==
    Breakdowns \cup
    {[given |-> TRUE, items |-> <<[provider |-> "openai", cost |-> 500, tokens |-> 10],
                                   [provider |-> "google", cost |-> 500, tokens |-> 10]>>],
     [given |-> TRUE, items |-> <<[provider |-> "openai", cost |-> 0, tokens |-> 10],
                                   [provider |-> "google", cost |-> 0, tokens |-> 10]>>]}

NextAdvice ==
    \/ \E e \in AdviceShapes :
          /\ EventCount(user_usage, DOMAIN user_usage) < MaxEvents + 1
          /\ record_usage(SeriesUser, e.provider, e.tokens, e.cost, e.level)
          /\ Forget
    \/ \E b \in AdviceBreakdowns :
          recommend_cost_reduction(SeriesUser, b) /\ UNCHANGED first

SpecAdvice == Init /\ [][NextAdvice]_vars

(***************************************************************************)
(* A clock that only moves forward: two users, several events a day, days  *)
(* without usage                                                           *)
(***************************************************************************)
NextCalendar ==
    \/ \E u \in Users, e \in EventShapes :
          /\ EventCount(user_usage, DOMAIN user_usage) < MaxEvents
          /\ record_usage(u, e.provider, e.tokens, e.cost, e.level)
          /\ Forget
    \/ now < MaxEvents /\ tick
    \/ \E u \in Users : detect_anomalies(u, 2) /\ UNCHANGED first

SpecCalendar == Init /\ [][NextCalendar]_vars

(***************************************************************************)
(* Threads: after some calls made one at a time, every thread makes one    *)
(* record_usage call, all on one day; the host may serialize them per user *)
(***************************************************************************)
NextRace ==
    \/ \E u \in Users, e \in AdviceShapes :
          /\ \A t \in DOMAIN calls.th : calls.th[t].pc = "idle"
          /\ EventCount(user_usage, DOMAIN user_usage) < MaxEvents - 1
          /\ record_usage(u, e.provider, e.tokens, e.cost, e.level)
          /\ Forget
    \/ serialize
    \/ \E t \in DOMAIN calls.th, u \in Users, e \in AdviceShapes :
          begin_record_usage(t, u, e.provider, e.tokens, e.cost, e.level)
    \/ \E t \in DOMAIN calls.th : find_or_create_step(t)
    \/ \E t \in DOMAIN calls.th : totals_step(t)
    \/ \E t \in DOMAIN calls.th : breakdown_step(t)

SpecRace == Init /\ [][NextRace]_vars

(***************************************************************************)
(* Both engines together: every operation, two users                       *)
(***************************************************************************)
\* a text of 40 characters, estimates for two providers, learning about one
NextFrame ==
    \/ \E u \in Users, e \in EventShapes :
          /\ EventCount(user_usage, DOMAIN user_usage) < MaxEvents
          /\ record_usage(u, e.provider, e.tokens, e.cost, e.level)
          /\ Forget
    \/ \E u \in Users : predict_monthly_cost(u) /\ UNCHANGED first
    \/ \E u \in Users, n \in Lookbacks : detect_anomalies(u, n) /\ UNCHANGED first
    \/ \E u \in Users : recommend_cost_reduction(u, NoBreakdown) /\ UNCHANGED first
    \/ \E u \in Users : get_efficiency_score(u) /\ UNCHANGED first
    \/ \E n \in {40}, p \in {"openai", "google"} :
          estimate_provider_tokens(n, p, "") /\ UNCHANGED first
    \/ \E n \in {40} :
          get_provider_recommendations(n, [given |-> FALSE]) /\ UNCHANGED first
    \/ \E u \in Users, p \in {"openai"} :
          /\ HistoryCount(user_history, DOMAIN user_history) < MaxLearn
          /\ learn_from_optimization(u, p, 40, 2, 1, 2, "balanced")
          /\ Forget

SpecFrame == Init /\ [][NextFrame]_vars

(***************************************************************************)
(* Properties                                                              *)
(***************************************************************************)
RecordsOf(u) == 1..Len(user_usage[u])

RequestCosts(rec) == [k \in 1..Len(rec.requests) |-> rec.requests[k].cost]

RequestTokens(rec) == [k \in 1..Len(rec.requests) |-> rec.requests[k].tokens]

\* sum(v['cost'] for v in d.values()), for the one or two entries the runs create
DictCosts(d) == FloatAdd(SumOver([k \in DOMAIN d |-> d[k].cost], DOMAIN d), 0)

DictTokens(d) == SumOver([k \in DOMAIN d |-> d[k].tokens], DOMAIN d)

Additive(rec) ==
    /\ rec.total_cost = FloatSum(RequestCosts(rec))
    /\ rec.total_tokens = SumSeq(RequestTokens(rec))
    /\ DictCosts(rec.by_provider) = rec.total_cost
    /\ DictTokens(rec.by_provider) = rec.total_tokens
    /\ DictCosts(rec.by_level) = rec.total_cost
    /\ DictTokens(rec.by_level) = rec.total_tokens

\* C1: after any sequence of record_usage calls every DailyRecord's total_cost and
\* total_tokens equal the sums over the requests it contains, and the costs and
\* tokens summed over by_provider and over by_level equal those totals
C1_Additivity ==
    \A u \in DOMAIN user_usage : \A i \in RecordsOf(u) : Additive(user_usage[u][i])

\* a record that aggregates events of two providers and two levels
C1_Witness ==
    \E u \in DOMAIN user_usage : \E i \in RecordsOf(u) :
        /\ Len(user_usage[u][i].requests) >= 2
        /\ Cardinality(DOMAIN user_usage[u][i].by_provider) = 2
        /\ Cardinality(DOMAIN user_usage[u][i].by_level) = 2
        /\ user_usage[u][i].total_cost > 0

\* one record per date, and a record only for a date with events of that date
OneRecordPerDate ==
    \A u \in DOMAIN user_usage :
        /\ \A i, j \in RecordsOf(u) :
              user_usage[u][i].date = user_usage[u][j].date => i = j
        /\ \A i \in RecordsOf(u) :
              /\ user_usage[u][i].requests # <<>>
              /\ \A k \in 1..Len(user_usage[u][i].requests) :
                    user_usage[u][i].requests[k].timestamp = user_usage[u][i].date

\* what one change of the ledger does: the event of the call joins the one record of
\* the call's date in the caller's ledger, which is appended when the date is new;
\* every record there was stays where it was, and only that of the date changes
RecordedInPlace ==
    user_usage' # user_usage =>
        LET u == result'.user
            today == DateOf(now)
            old == LedgerOf(user_usage, u)
            new == user_usage'[u]
        IN  /\ result'.op = "record_usage"
            /\ DOMAIN user_usage' = DOMAIN user_usage \cup {u}
            /\ \A v \in DOMAIN user_usage \ {u} : user_usage'[v] = user_usage[v]
            /\ Len(new) = Len(old)
                            + (IF \E i \in 1..Len(old) : old[i].date = today THEN 0 ELSE 1)
            /\ \A i \in 1..Len(old) :
                  /\ new[i].date = old[i].date
                  /\ old[i].date # today => new[i] = old[i]
            /\ \E i \in 1..Len(new) :
                  /\ new[i].date = today
                  /\ new[i].requests[Len(new[i].requests)] =
                        [timestamp |-> today, provider |-> result'.arg.provider,
                         tokens |-> result'.arg.tokens, cost |-> result'.arg.cost,
                         level |-> result'.arg.level]
                  /\ i <= Len(old) =>
                        SubSeq(new[i].requests, 1, Len(new[i].requests) - 1)
                            = old[i].requests

\* C2: each user's ledger holds exactly one DailyRecord for every date on which the
\* user recorded an event and none for other dates, also when the clock returns an
\* earlier date; a record is never removed, keeps its position, and every later
\* event of its date is added to it
C2_OneRecordPerDate == [](OneRecordPerDate) /\ [][RecordedInPlace]_vars

\* the clock went back to day 0 after day 1 was recorded, and the event recorded
\* then joined the first record of the ledger
C2_Witness ==
    /\ result.op = "record_usage" /\ result.at = 0
    /\ result.user \in DOMAIN user_usage
    /\ Len(user_usage[result.user]) = 2
    /\ user_usage[result.user][1].date = DateOf(0)
    /\ user_usage[result.user][2].date = DateOf(1)
    /\ Len(user_usage[result.user][1].requests) = 2

ReadOps ==
    {"predict_monthly_cost", "detect_anomalies", "recommend_cost_reduction",
     "get_efficiency_score"}

\* the ledger of the caller of the last call
CallerLedger == LedgerOf(user_usage, result.user)

\* C3: predict_monthly_cost never fails: for any number of DailyRecords, exactly 3
\* included, it returns a prediction whose trend is up, down or stable
C3_PredictNeverFails ==
    result.op = "predict_monthly_cost" =>
        result.out.ok /\ result.out.trend \in {"up", "down", "stable"}

\* C4: for a user with at least one DailyRecord whose recorded tokens sum to zero,
\* get_efficiency_score returns a result whose cost sub-score is 50
C4_ZeroTokensDefault ==
    ( /\ result.op = "get_efficiency_score"
      /\ CallerLedger # <<>>
      /\ SumSeq([i \in 1..Len(CallerLedger) |-> CallerLedger[i].total_tokens]) = 0 )
    => result.out.ok /\ result.out.breakdown.cost_per_token = 50

\* C5: with a known provider and model, estimate_provider_tokens returns an estimate
\* for every text and calibration state, and so does get_provider_recommendations
C5_EstimateNeverDividesByZero ==
    /\ ( /\ result.op = "estimate_provider_tokens"
         /\ result.arg.provider \in DOMAIN PROVIDERS
         /\ \/ result.arg.model = ""
            \/ result.arg.model \in Range(PROVIDERS[result.arg.provider].models) )
       => result.out.ok
    /\ result.op = "get_provider_recommendations" => result.out.ok

EmptyResult ==
    /\ result.op = "predict_monthly_cost" =>
          result.out = [ok |-> TRUE, daily_average |-> 0, current_period_cost |-> 0,
                        projected_period_end |-> 0, days_remaining |-> 0,
                        confidence |-> 0, trend |-> "stable"]
    /\ result.op = "detect_anomalies" => result.out = [ok |-> TRUE, value |-> <<>>]
    /\ result.op = "recommend_cost_reduction" =>
          result.out = [ok |-> TRUE, value |-> <<>>]
    /\ result.op = "get_efficiency_score" =>
          /\ result.out.ok
          /\ result.out.score = 0
          /\ result.out.message = "Not enough data"

\* C6: for a user without ledger every read operation returns its empty result
\* (an all-zero stable prediction, no anomalies, no recommendations also when
\* by_provider is supplied, score 0 with a message) and creates no ledger
C6_UnknownUser ==
    /\ []((result.op \in ReadOps /\ CallerLedger = <<>>) => EmptyResult)
    /\ [][result'.op \in ReadOps => user_usage' = user_usage]_vars

\* recommendations asked with a provider breakdown for a user without ledger, while
\* another user has one
C6_Witness ==
    /\ result.op = "recommend_cost_reduction"
    /\ result.arg.given
    /\ result.user \notin DOMAIN user_usage
    /\ DOMAIN user_usage # {}

\* C7: every result of get_efficiency_score has 0 <= score <= 100, and score 0 is
\* returned only for a user without DailyRecord
C7_ScoreBounds ==
    (result.op = "get_efficiency_score" /\ result.out.ok) =>
        /\ 0 <= result.out.score
        /\ result.out.score <= 100
        /\ result.out.score = 0 => CallerLedger = <<>>

\* the lowest score of a user with records: all three sub-scores at their lowest
C7_Witness ==
    /\ result.op = "get_efficiency_score"
    /\ result.out.ok
    /\ CallerLedger # <<>>
    /\ result.out.breakdown = [cost_per_token |-> 0, optimization_usage |-> 0,
                               trend |-> 50]
    /\ result.out.score = 15

IdemOps == {"predict_monthly_cost", "detect_anomalies", "get_efficiency_score"}

\* the last call repeats the remembered one: same operation, user and argument,
\* and no record_usage between the two
Repeated ==
    /\ first.op \in IdemOps
    /\ result.op = first.op
    /\ result.user = first.user
    /\ result.op = "detect_anomalies" => result.arg = first.arg

\* C8 as claimed: a read repeated with no record_usage in between returns the same
\* result, whatever else happens between the two calls
C8_ReadsIdempotent == Repeated => result.out = first.out

\* C8: detect_anomalies and get_efficiency_score repeated with no record_usage in
\* between return the same result whatever else happens between the two calls;
\* predict_monthly_cost does when both calls are made on the same day
C8_ReadsIdempotentSameDay ==
    (Repeated /\ (result.op = "predict_monthly_cost" => result.at = first.at))
        => result.out = first.out

\* anomalies reported twice, on different days
C8_Witness ==
    /\ Repeated
    /\ result.op = "detect_anomalies"
    /\ result.at # first.at
    /\ result.out.value # <<>>

\* C9: the confidence of a prediction is min(0.95, 0.5 + 0.05 * N) for the N
\* DailyRecords of the user: 0.55 for one record, 0.95 from 9 records on; records
\* are never removed, so it never decreases from one prediction to a later one
C9_Confidence ==
    /\ []( ( /\ result.op = "predict_monthly_cost"
             /\ result.out.ok
             /\ CallerLedger # <<>> )
           => LET n == Len(CallerLedger)
              IN  /\ result.out.confidence = (IF n >= 9 THEN 95 ELSE 50 + 5 * n)
                  /\ n = 1 => result.out.confidence = 55 )
    /\ [][\A u \in DOMAIN user_usage :
             /\ u \in DOMAIN user_usage'
             /\ Len(user_usage'[u]) >= Len(user_usage[u])]_vars

\* a prediction from 9 records
C9_Witness ==
    /\ result.op = "predict_monthly_cost"
    /\ result.out.ok
    /\ Len(CallerLedger) >= 9
    /\ result.out.confidence = 95

RECURSIVE SumRange(_, _, _)
\* s[a] + ... + s[b]
SumRange(s, a, b) == IF a > b THEN 0 ELSE s[a] + SumRange(s, a + 1, b)

LastRecords(ledger, lookback_days) ==
    SubSeq(ledger, Len(ledger) - Min(Len(ledger), lookback_days) + 1, Len(ledger))

\* the window of the detect_anomalies call just made
CalledWindow == LastRecords(CallerLedger, result.arg)

\* the costs of that window, in whole dollars
WindowDollars == [i \in 1..Len(CalledWindow) |-> CalledWindow[i].total_cost \div 100]

\* the anomalies of a type reported for the i-th record of the window
ReportedAt(type, i) ==
    SelectSeq(result.out.value,
              LAMBDA a : a.type = type /\ a.date = CalledWindow[i].date)

\* cost > 2 * avg_cost, or stdev > 0 and cost > avg_cost + 2 * stdev, with the
\* sample standard deviation sqrt(sum((x - avg)^2) / (n - 1)); in integers with
\* dev[j] = n * x[j] - sum(x)
SpikeCondition(x, i) ==
    LET n == Len(x)
        dev == [j \in 1..n |-> n * x[j] - SumSeq(x)]
        squares == SumSeq([j \in 1..n |-> dev[j] * dev[j]])
    IN  \/ n * x[i] > 2 * SumSeq(x)
        \/ /\ squares > 0
           /\ dev[i] > 0
           /\ dev[i] * dev[i] * (n - 1) > 4 * squares

C13_WindowByPosition ==
    (result.op = "detect_anomalies" /\ CallerLedger # <<>>) =>
        LET window == CalledWindow
            n == Len(window)
            total == SumSeq([i \in 1..n |-> window[i].total_cost])
        IN  /\ n = Min(Len(CallerLedger), result.arg)
            /\ \A i \in 1..n : window[i] = CallerLedger[Len(CallerLedger) - n + i]
            /\ n < 2 => result.out.value = <<>>
            /\ \A k \in 1..Len(result.out.value) :
                  /\ \E i \in 1..n : /\ result.out.value[k].date = window[i].date
                                     /\ result.out.value[k].actual_cost
                                           = window[i].total_cost
                  \* normal_cost is the average of the window, to the cent
                  /\ 2 * Abs(n * result.out.value[k].normal_cost - total) <= n
            \* the same answer as for a ledger made of the window alone
            /\ result.out = DetectAnomalies([u \in {result.user} |-> window],
                                            result.user, n)

\* anomalies reported from a window of 4 records of a longer ledger, the first of
\* them dated 4 days or more before the call
C13_Witness ==
    /\ result.op = "detect_anomalies"
    /\ Len(CallerLedger) > result.arg
    /\ result.arg >= 2
    /\ result.out.value # <<>>
    /\ \E day \in 0..now : /\ DateOf(day) = CalledWindow[1].date
                           /\ now - day >= result.arg
    /\ result.at = now

\* the calibration record a learn_from_optimization call for provider p starts from
CalibrationBefore(p) ==
    IF p \in DOMAIN provider_calibration THEN provider_calibration[p]
    ELSE [token_ratio |-> [num |-> 1, den |-> 1], sample_count |-> 0,
          cost_per_token |-> [num |-> 0, den |-> 1]]

\* what one learn_from_optimization call with learning enabled does
LearnEffect ==
    (pi_learning_enabled /\ result'.op = "learn_from_optimization") =>
        LET u == result'.user
            a == result'.arg
            p == a.provider
            before == CalibrationBefore(p)
            after == provider_calibration'[p]
            entries == IF u \in DOMAIN user_history THEN user_history[u] ELSE <<>>
        IN  \* one entry more in the caller's history, nothing else in any history
            /\ DOMAIN user_history' = DOMAIN user_history \cup {u}
            /\ Len(user_history'[u]) = Len(entries) + 1
            /\ SubSeq(user_history'[u], 1, Len(entries)) = entries
            /\ user_history'[u][Len(entries) + 1].provider = p
            /\ user_history'[u][Len(entries) + 1].tokens_actual = a.tokens_actual
            /\ \A v \in DOMAIN user_history \ {u} : user_history'[v] = user_history[v]
            \* the provider's record, and no other
            /\ DOMAIN provider_calibration' = DOMAIN provider_calibration \cup {p}
            /\ \A q \in DOMAIN provider_calibration \ {p} :
                  provider_calibration'[q] = provider_calibration[q]
            \* token_ratio = 0.3 * (tokens_actual / tokens_estimated) + 0.7 * old
            /\ IF a.tokens_estimated > 0
               THEN after.token_ratio.num * 10 * a.tokens_estimated * before.token_ratio.den
                      = after.token_ratio.den
                          * (3 * a.tokens_actual * before.token_ratio.den
                             + 7 * before.token_ratio.num * a.tokens_estimated)
               ELSE after.token_ratio = before.token_ratio
            /\ after.sample_count = before.sample_count + 1
            \* cost_per_token = cost / tokens_actual, or 0
            /\ IF a.tokens_actual # 0
               THEN after.cost_per_token.num * a.tokens_actual
                      = after.cost_per_token.den * a.cost
               ELSE after.cost_per_token.num = 0

\* C14: one learn_from_optimization call for provider p with learning enabled
\* appends one entry to the caller's history, creates p's calibration record
\* (token_ratio 1.0, sample_count 0) if absent, sets token_ratio to
\* 0.3*(tokens_actual/tokens_estimated) + 0.7*old when tokens_estimated > 0 and
\* leaves it otherwise, adds 1 to sample_count, sets cost_per_token to
\* cost/tokens_actual, or to 0 when tokens_actual is 0, and leaves the records of
\* other providers alone
C14_Learn == [][LearnEffect]_vars

\* a second call for a provider, with tokens_actual 0, while another provider has
\* a record
C14_Witness ==
    /\ result.op = "learn_from_optimization"
    /\ result.arg.tokens_actual = 0
    /\ result.arg.provider \in DOMAIN provider_calibration
    /\ provider_calibration[result.arg.provider].sample_count = 2
    /\ provider_calibration[result.arg.provider].cost_per_token.num = 0
    /\ DOMAIN provider_calibration # {result.arg.provider}

\* C15: a learn_from_optimization call with observed ratio r =
\* tokens_actual/tokens_estimated moves the provider's token_ratio toward r: the
\* first call from the initial state gives 0.3*r + 0.7, every call leaves
\* token_ratio - r at 0.7 times its value before the call, so the distance shrinks
\* by that factor and token_ratio never passes r
C15_Convergence ==
    [][(/\ pi_learning_enabled
        /\ result'.op = "learn_from_optimization"
        /\ result'.arg.tokens_estimated > 0) =>
          LET est == result'.arg.tokens_estimated
              act == result'.arg.tokens_actual
              old == CalibrationBefore(result'.arg.provider).token_ratio
              new == provider_calibration'[result'.arg.provider].token_ratio
              \* (ratio - r) * est * ratio.den
              gap(ratio) == ratio.num * est - act * ratio.den
          IN  /\ new.den > 0 /\ old.den > 0
              /\ 10 * gap(new) * old.den = 7 * gap(old) * new.den
              /\ gap(old) # 0 => 10 * Abs(gap(new)) * old.den < 10 * Abs(gap(old)) * new.den
              /\ gap(old) > 0 => gap(new) > 0
              /\ gap(old) < 0 => gap(new) < 0
              /\ result'.arg.provider \notin DOMAIN provider_calibration =>
                    10 * est * new.num = new.den * (3 * act + 7 * est)]_vars

\* three calls with ratio 1/2 for one provider: 0.85, 0.745, 0.6715
C15_Witness ==
    /\ "openai" \in DOMAIN provider_calibration
    /\ provider_calibration["openai"].sample_count = 3
    /\ provider_calibration["openai"].token_ratio = [num |-> 1343, den |-> 2000]
    /\ result.op = "learn_from_optimization"
    /\ result.arg.tokens_estimated = 2 /\ result.arg.tokens_actual = 1

\* C16: estimate_provider_tokens fails with an invalid-argument error when the
\* provider is not in the pricing table or a model is given that is not one of the
\* provider's models, and then leaves calibration and history unchanged; with a
\* known provider and no model it uses the provider's first model and succeeds
C16_Validation ==
    /\ [](result.op = "estimate_provider_tokens" =>
            LET a == result.arg
            IN  /\ a.provider \notin DOMAIN PROVIDERS =>
                      result.out = [ok |-> FALSE, error |-> "ValueError"]
                /\ ( /\ a.provider \in DOMAIN PROVIDERS
                     /\ a.model # ""
                     /\ \A k \in 1..Len(PROVIDERS[a.provider].models) :
                           PROVIDERS[a.provider].models[k] # a.model )
                   => result.out = [ok |-> FALSE, error |-> "ValueError"]
                /\ (a.provider \in DOMAIN PROVIDERS /\ a.model = "") =>
                      /\ result.out.ok
                      /\ result.out.model = PROVIDERS[a.provider].models[1])
    /\ [][result'.op = "estimate_provider_tokens" =>
             /\ provider_calibration' = provider_calibration
             /\ user_history' = user_history]_vars

\* C17: for a fixed provider, model and calibration state, the cost_usd of
\* estimate_provider_tokens is non-decreasing in the length of the text
C17_CostMonotone ==
    ( /\ result.op = "estimate_provider_tokens"
      /\ first.op = "estimate_provider_tokens"
      /\ result.arg.provider = first.arg.provider
      /\ result.arg.model = first.arg.model
      /\ result.out.ok /\ first.out.ok )
    => /\ first.arg.text_len <= result.arg.text_len
            => first.out.cost_usd <= result.out.cost_usd
       /\ result.arg.text_len <= first.arg.text_len
            => result.out.cost_usd <= first.out.cost_usd

\* two estimates under a learned calibration, the longer text strictly dearer
C17_Witness ==
    /\ result.op = "estimate_provider_tokens"
    /\ first.op = "estimate_provider_tokens"
    /\ result.arg.provider = first.arg.provider
    /\ result.arg.model = first.arg.model
    /\ result.out.ok /\ first.out.ok
    /\ result.arg.provider \in DOMAIN provider_calibration
    /\ first.arg.text_len < result.arg.text_len
    /\ first.out.cost_usd < result.out.cost_usd

\* the preferences the recommendations call just made worked with
CalledPreferences ==
    IF result.arg.user_preferences.given THEN result.arg.user_preferences
    ELSE [given |-> TRUE, priority |-> "cost", budget_limit |-> 10000]

\* the sort key of a provider under the called priority, smaller first; cost and
\* tokens per dollar as estimated for the text of the call
PriorityKey(provider) ==
    LET priority == CalledPreferences.priority
        estimate == EstimateProviderTokens(provider_calibration, result.arg.text_len,
                                           provider, "")
    IN  IF priority = "cost" THEN estimate.cost_usd
        ELSE IF priority = "speed" THEN PROVIDERS[provider].speed
        ELSE IF priority = "quality" THEN PROVIDERS[provider].quality
        ELSE 0 - estimate.tokens_per_dollar

\* C18: get_provider_recommendations returns three entries, for three distinct
\* providers, which are the first three of all known providers ordered by the
\* priority's key (ascending cost_usd, speed rank or quality rank, descending
\* tokens_per_dollar otherwise): they appear in key order and no provider left out
\* has a strictly better key than a returned one
C18_TopThree ==
    (result.op = "get_provider_recommendations" /\ result.out.ok) =>
        LET value == result.out.value
            returned == {value[i].provider : i \in 1..Len(value)}
        IN  /\ Len(value) = 3
            /\ Cardinality(returned) = 3
            /\ returned \subseteq DOMAIN PROVIDERS
            /\ \A i \in 1..Len(value) :
                  /\ value[i].cost_usd
                        = EstimateProviderTokens(provider_calibration,
                              result.arg.text_len, value[i].provider, "").cost_usd
                  /\ \A j \in (i + 1)..Len(value) :
                        PriorityKey(value[i].provider) <= PriorityKey(value[j].provider)
                  /\ \A q \in DOMAIN PROVIDERS \ returned :
                        PriorityKey(q) >= PriorityKey(value[i].provider)

\* the three providers of most tokens per dollar, the first strictly better than
\* the third, under a learned calibration
C18_Witness ==
    /\ result.op = "get_provider_recommendations"
    /\ result.out.ok
    /\ CalledPreferences.priority = "value"
    /\ DOMAIN provider_calibration # {}
    /\ Len(result.out.value) = 3
    /\ result.out.value[1].tokens_per_dollar > result.out.value[3].tokens_per_dollar

\* C19: in get_provider_recommendations every provider whose estimated cost exceeds
\* budget_limit gets rank 0, and the budget removes no entry: the returned list is
\* the first three of the priority ordering whether or not they are affordable
C19_BudgetGate ==
    (result.op = "get_provider_recommendations" /\ result.out.ok) =>
        LET value == result.out.value
            unlimited == GetProviderRecommendations(provider_calibration,
                            result.arg.text_len,
                            [CalledPreferences EXCEPT !.budget_limit = 1000000000])
        IN  /\ Len(value) = 3
            /\ \A i \in 1..Len(value) :
                  value[i].cost_usd > CalledPreferences.budget_limit
                      => value[i].rank = [num |-> 0, den |-> 1]
            /\ unlimited.ok
            /\ [i \in 1..Len(value) |-> value[i].provider]
                  = [i \in 1..Len(unlimited.value) |-> unlimited.value[i].provider]

\* an over-budget provider, of rank 0, returned ahead of an affordable one
C19_Witness ==
    /\ result.op = "get_provider_recommendations"
    /\ result.out.ok
    /\ Len(result.out.value) = 3
    /\ result.out.value[1].cost_usd > CalledPreferences.budget_limit
    /\ result.out.value[1].rank = [num |-> 0, den |-> 1]
    /\ result.out.value[3].cost_usd <= CalledPreferences.budget_limit
    /\ result.out.value[3].rank.num > 0

\* C20: while learning_enabled is false, record_usage is a no-op for every
\* argument: it creates no ledger and no DailyRecord and changes no total, so every
\* read operation returns what it returned before the call
C20_DisabledNoOp ==
    [][(~learning_enabled /\ result' # result /\ result'.op = "record_usage") =>
          /\ user_usage' = user_usage
          /\ learning_enabled' = learning_enabled
          /\ \A u \in Users :
                /\ PredictMonthlyCost(user_usage', u, now')
                      = PredictMonthlyCost(user_usage, u, now)
                /\ \A n \in Lookbacks :
                      DetectAnomalies(user_usage', u, n) = DetectAnomalies(user_usage, u, n)
                /\ \A b \in Breakdowns :
                      RecommendCostReduction(user_usage', u, b)
                        = RecommendCostReduction(user_usage, u, b)
                /\ GetEfficiencyScore(user_usage', u) = GetEfficiencyScore(user_usage, u)]_vars

\* record_usage called with the flag off, for a user without ledger and then none,
\* while another user has a ledger from before
C20_Witness ==
    /\ ~learning_enabled
    /\ result.op = "record_usage"
    /\ result.user \notin DOMAIN user_usage
    /\ DOMAIN user_usage # {}

\* the operations that only read
Readers ==
    {"predict_monthly_cost", "detect_anomalies", "recommend_cost_reduction",
     "get_efficiency_score", "estimate_provider_tokens", "get_provider_recommendations"}

\* C21: only record_usage changes the usage ledger and only learn_from_optimization
\* changes the calibration records and the user history; the six read operations
\* leave ledger, history and calibration unchanged
C21_Frame ==
    [][/\ user_usage' # user_usage => result'.op = "record_usage"
       /\ (user_history' # user_history \/ provider_calibration' # provider_calibration)
             => result'.op = "learn_from_optimization"
       /\ result'.op \in Readers =>
             /\ user_usage' = user_usage
             /\ user_history' = user_history
             /\ provider_calibration' = provider_calibration]_vars

\* anomalies asked for a user without ledger while another user has a ledger and
\* a calibration record exists: the user still has no ledger
C21_Witness ==
    /\ result.op = "detect_anomalies"
    /\ result.user \notin DOMAIN user_usage
    /\ DOMAIN user_usage # {}
    /\ DOMAIN provider_calibration # {}
    /\ DOMAIN user_history # {}

Writers == {"record_usage", "learn_from_optimization"}

\* what the four cost operations return for user b
CostReads(usage, b, clock) ==
    <<PredictMonthlyCost(usage, b, clock), DetectAnomalies(usage, b, 7),
      RecommendCostReduction(usage, b, NoBreakdown), GetEfficiencyScore(usage, b)>>

\* the estimate for a text of 40 characters with provider p
EstimateFor(calibration, p) == EstimateProviderTokens(calibration, 40, p, "")

HistoryOf(history, b) == IF b \in DOMAIN history THEN history[b] ELSE <<>>

\* C22 (as stated): no call made with user A (record_usage,
\* learn_from_optimization) changes what any operation returns for another user B:
\* the four cost operations, the estimates and the provider recommendations
C22_Partitioned ==
    [][result'.op \in Writers =>
         \A b \in Users \ {result'.user} :
            /\ CostReads(user_usage', b, now') = CostReads(user_usage, b, now)
            /\ \A p \in DOMAIN PROVIDERS :
                  EstimateFor(provider_calibration', p) = EstimateFor(provider_calibration, p)
            /\ GetProviderRecommendations(provider_calibration', 40, [given |-> FALSE])
                 = GetProviderRecommendations(provider_calibration, 40, [given |-> FALSE])]_vars

\* C22 (amended): a call made with user A changes neither what the four cost
\* operations return for another user B nor B's history, and record_usage changes
\* no estimate or recommendation; learn_from_optimization for provider p changes
\* the calibration of p, which every user's estimates share, and leaves the
\* estimates for the other providers as they were
C22_PartitionedLedgers ==
    [][result'.op \in Writers =>
         /\ \A b \in Users \ {result'.user} :
               /\ CostReads(user_usage', b, now') = CostReads(user_usage, b, now)
               /\ HistoryOf(user_history', b) = HistoryOf(user_history, b)
         /\ result'.op = "record_usage" =>
               /\ \A p \in DOMAIN PROVIDERS :
                     EstimateFor(provider_calibration', p)
                      = EstimateFor(provider_calibration, p)
               /\ GetProviderRecommendations(provider_calibration', 40, [given |-> FALSE])
                    = GetProviderRecommendations(provider_calibration, 40, [given |-> FALSE])
         /\ result'.op = "learn_from_optimization" =>
               \A p \in DOMAIN PROVIDERS \ {result'.arg.provider} :
                  EstimateFor(provider_calibration', p)
                   = EstimateFor(provider_calibration, p)]_vars

\* alice has learned about openai while bob has a ledger and a history of his own,
\* and the estimate for openai is no longer the uncalibrated one
C22_Witness ==
    /\ result.op = "learn_from_optimization"
    /\ result.user = "alice"
    /\ HasLedger(user_usage, "bob")
    /\ HistoryOf(user_history, "bob") # <<>>
    /\ EstimateFor(provider_calibration, "openai") # EstimateFor(EmptyDict, "openai")

\* C28: with non-negative daily costs an anomaly of severity HIGH is reported only
\* for a window of at least 4 records: in a window of 2 or 3 records every
\* reported anomaly has severity MEDIUM
C28_HighNeedsFour ==
    (/\ result.op = "detect_anomalies"
     /\ result.out.ok
     /\ Len(CalledWindow) \in {2, 3})
    => \A k \in 1..Len(result.out.value) : result.out.value[k].severity = "MEDIUM"

\* the recommendations of a type in the result
Advice(type) == SelectSeq(result.out.value, LAMBDA r : r.type = type)

\* C23: recommend_cost_reduction for a user with history never fails on the given
\* by_provider mapping; DIVERSIFY_PROVIDERS is emitted exactly when the most
\* expensive provider has more than 50% of the summed cost, and a mapping whose
\* costs sum to zero gives no DIVERSIFY_PROVIDERS instead of a division by zero
C23_AdviceNeverFails ==
    (result.op = "recommend_cost_reduction" /\ CallerLedger # <<>>) =>
        /\ result.out.ok
        /\ LET items == result.arg.items
               total == SumSeq([i \in 1..Len(items) |-> items[i].cost])
           IN  Len(Advice("DIVERSIFY_PROVIDERS")) =
                 (IF result.arg.given /\ items # <<>>
                     /\ 2 * MostExpensive(items).cost > total
                  THEN 1 ELSE 0)

\* C27: no result of recommend_cost_reduction holds both
\* SWITCH_OPTIMIZATION_LEVEL and INCREASE_OPTIMIZATION
C27_LevelAdviceExclusive ==
    (result.op = "recommend_cost_reduction" /\ result.out.ok) =>
        ~(/\ Advice("SWITCH_OPTIMIZATION_LEVEL") # <<>>
          /\ Advice("INCREASE_OPTIMIZATION") # <<>>)

\* C24: the trend sub-score of get_efficiency_score is 75 for a user with fewer
\* than 14 DailyRecords, whatever the recorded costs (with 7 to 13 records the mean
\* of the last 7 is compared with itself); with 14 or more records it is 100 when
\* the last-7 mean is below 0.9 times the mean of the 7 records before, 75 when
\* below 1.1 times, else 50
C24_TrendSubScore ==
    (result.op = "get_efficiency_score" /\ result.out.ok /\ CallerLedger # <<>>) =>
        LET costs == DailyCosts(CallerLedger)
            recent == SumSeq(LastN(costs, 7))
            older == SumSeq(LastN(DropLastN(costs, 7), 7))
        IN  result.out.breakdown.trend =
              (IF Len(costs) < 14 THEN 75
               ELSE IF 10 * recent < 9 * older THEN 100
               ELSE IF 10 * recent < 11 * older THEN 75
               ELSE 50)

\* C26: on every date on which predict_monthly_cost runs, the 29th of February
\* of a leap year included, days_remaining >= 0 and projected_period_end is not
\* below current_period_cost
C26_DaysRemaining ==
    (result.op = "predict_monthly_cost" /\ result.out.ok) =>
        /\ result.out.days_remaining >= 0
        /\ result.out.projected_period_end >= result.out.current_period_cost

\* the history entries of user u for provider p
EntriesOf(u, p) == SelectSeq(user_history[u], LAMBDA h : h.provider = p)

\* the number of history entries for provider p, over all users
RECURSIVE EntriesFor(_, _)
EntriesFor(users, p) ==
    IF users = {} THEN 0
    ELSE LET u == CHOOSE x \in users : TRUE
         IN  Len(EntriesOf(u, p)) + EntriesFor(users \ {u}, p)

\* C29: after any sequence of learn_from_optimization calls a calibration record
\* exists for a provider exactly when some user's history has an entry for it, and
\* its sample_count is the number of history entries for that provider over all
\* users, the calls with tokens_estimated <= 0 included
C29_SampleCount ==
    \A p \in DOMAIN PROVIDERS :
        /\ p \in DOMAIN provider_calibration <=> EntriesFor(DOMAIN user_history, p) > 0
        /\ p \in DOMAIN provider_calibration =>
              provider_calibration[p].sample_count = EntriesFor(DOMAIN user_history, p)

\* openai has been learned about by both users, once with tokens_estimated = 0,
\* and google not at all
C29_Witness ==
    /\ result.op = "learn_from_optimization"
    /\ DOMAIN user_history = Users
    /\ \A u \in Users : EntriesOf(u, "openai") # <<>>
    /\ \E u \in Users : \E k \in 1..Len(user_history[u]) :
          user_history[u][k].provider = "openai" /\ user_history[u][k].tokens_estimated = 0
    /\ provider_calibration["openai"].sample_count >= 2
    /\ "google" \notin DOMAIN provider_calibration

\* date a is before date b
DateBefore(a, b) == DateLeq(a, b) /\ a # b

\* C30: with a clock that never moves backwards the dates of each user's
\* DailyRecords are strictly increasing in ledger order, so that the last N records
\* are the N most recent dates with usage, and no record is dated after the current
\* day (with a clock that can be set back the ledger can be out of calendar order)
C30_DatesIncrease ==
    \A u \in DOMAIN user_usage :
        /\ \A i, j \in 1..Len(user_usage[u]) :
              i < j => DateBefore(user_usage[u][i].date, user_usage[u][j].date)
        /\ \A i \in 1..Len(user_usage[u]) : DateLeq(user_usage[u][i].date, DateOf(now))

\* anomalies are asked for the last 2 of 3 records, which are not of consecutive
\* days, after the 29th of February
C30_Witness ==
    /\ result.op = "detect_anomalies"
    /\ Len(CallerLedger) = 3
    /\ CallerLedger[1].date = DateOf(0)
    /\ CallerLedger[2].date = DateOf(2)
    /\ CallerLedger[3].date = DateOf(3)

\* no thread is inside a call for user u
Quiet(u) == \A t \in DOMAIN calls.th : Running(t) => calls.th[t].user # u

DatesUnique(u) ==
    \A i, j \in RecordsOf(u) : user_usage[u][i].date = user_usage[u][j].date => i = j

\* C25: when the calls of each user run under mutual exclusion, whatever the
\* interleaving of the steps of different users' calls, a ledger never holds two
\* DailyRecords of one date, and between the calls of a user every record of that
\* user is additive (totals equal to the sums over its requests, over by_provider
\* and over by_level)
C25_SerializedInvariants ==
    calls.mode = "mutex" =>
        \A u \in DOMAIN user_usage :
            /\ DatesUnique(u)
            /\ Quiet(u) => \A i \in RecordsOf(u) : Additive(user_usage[u][i])

\* without serialization: two threads recorded for one user on one day, and the
\* ledger holds two DailyRecords of that date
C25_TwoRecordsOfOneDate ==
    /\ calls.mode = "free"
    /\ \A t \in DOMAIN calls.th : calls.th[t].pc = "done"
    /\ \E u \in DOMAIN user_usage : ~DatesUnique(u)

\* without serialization: two threads recorded for one user into one record, and
\* the record's total_cost holds only one of the two costs
C25_LostUpdate ==
    /\ calls.mode = "free"
    /\ \A t \in DOMAIN calls.th : calls.th[t].pc = "done"
    /\ \E u \in DOMAIN user_usage :
          /\ Len(user_usage[u]) = 1
          /\ Len(user_usage[u][1].requests) = 2
          /\ \E k \in 1..2 : user_usage[u][1].total_cost = user_usage[u][1].requests[k].cost

\* as C25_SerializedInvariants, for records of at most MaxEvents requests: no
\* float addition of their amounts rounds
C25_SerializedExactAmounts ==
    (calls.mode = "mutex"
       /\ \A u \in DOMAIN user_usage : \A i \in RecordsOf(u) :
             Len(user_usage[u][i].requests) < MaxEvents + 1) =>
        \A u \in DOMAIN user_usage :
            /\ DatesUnique(u)
            /\ Quiet(u) => \A i \in RecordsOf(u) : Additive(user_usage[u][i])

====
